---- MODULE Spec2Model ----
(***************************************************************************)
(* Model of the doot trigger layer (src/webhook.py, src/cli.py), the       *)
(* session store (src/session.py) and the dispatcher boundary              *)
(* (src/orchestrator_runner.py, src/graph/orchestrator.py).                *)
(*                                                                         *)
(* Text is a sequence of atoms: "" is <<>>, the atom "\n" is a line break, *)
(* the atom " " is white space.  Dates are day numbers, a time of day is a *)
(* slot number of that day.                                                *)
(***************************************************************************)
EXTENDS Integers, Sequences, FiniteSets, TLC

VARIABLES
    now,          \* datetime.now(tz): [day, slot]
    tz_ok,        \* whether DOOT_SCHEDULE_TZ names a time zone
    schedule,     \* content of the schedule file: list of entries
    last_run,     \* content of schedule_last_run.json: task_id -> date
    reports,      \* reports/<date>.md: date -> text
    runs,         \* the _run_scheduled_task_async tasks kicked off and not finished
    kicked,       \* history: task_id -> the date a run of it was last kicked off
    lastFinish,   \* history: how the run that finished last ended
    session_file, \* content of chat_session.json
    pc,           \* per trigger: position in its code
    mem,          \* per trigger: its in-memory message list
    cli_mode,     \* "once" (chat MESSAGE) or "loop" (_run_chat_interactive)
    turnStart,    \* history: rows of the session file when the trigger's turn began
    saved,        \* history: whether the trigger's current turn has saved the session
    lastSaver,    \* history: the trigger whose save_session ran last
    delivered,    \* per trigger: text handed to the user in the current turn
    outbound,     \* history, per trigger: outcomes of its turn's calls of _send_telegram_text
    chat_id_known, \* whether _get_gmail_push_chat_id() finds a chat id (env or file)
    rt_pc,        \* session round trip: position
    rt_in,        \* session round trip: the message list given to save_session
    rt_file,      \* session round trip: the file
    rt_out,       \* session round trip: result of load_session
    claw_fs,      \* the memory workspace: [dirs, files] under _memory_root()
    claw_out,     \* the last call of read_memory_file / append_memory_file and its result
    am,           \* the agent memory of one agent type: [identity, skills, failures, working]
    svr,          \* per caller of save_skill / save_failure: position and locals
    am_out,       \* the last call on the agent memory and its result
    utc_day,      \* the UTC date of datetime.now(timezone.utc), as a day number
    ctx,          \* per trigger: its turn's context message and its memory_append in progress
    appended,     \* history: the appends to the memory workspace that completed
    call,         \* the operation applied last and its arguments
    ret,          \* what that operation returned
    chat_id_file, \* content of telegram_chat_id.txt: a chat id, or NoChat when absent
    background,   \* the background tasks added by responses and not yet run
    last_chat     \* history: chat id of the chat message processed last, or NoChat

vars == <<now, tz_ok, schedule, last_run, reports, runs, kicked, lastFinish,
          session_file, pc, mem, cli_mode, turnStart, saved, lastSaver, delivered,
          outbound, chat_id_known, rt_pc, rt_in, rt_file, rt_out,
          claw_fs, claw_out, am, svr, am_out, utc_day, ctx, appended, call, ret,
          chat_id_file, background, last_chat>>

schedVars == <<now, tz_ok, schedule, last_run, reports, runs, kicked, lastFinish>>
turnVars == <<session_file, pc, mem, cli_mode, turnStart, saved, lastSaver, delivered,
              outbound, chat_id_known>>
rtVars == <<rt_pc, rt_in, rt_file, rt_out>>
clawVars == <<claw_fs, claw_out>>
amVars == <<am, svr, am_out>>
ctxVars == <<utc_day, ctx, appended>>
ioVars == <<call, ret>>
inVars == <<chat_id_file, background, last_chat>>
memVars == <<clawVars, amVars, ctxVars, ioVars, inVars>>

----------------------------------------------------------------------------
(* Bounds *)

MaxDay == 1
MaxSlot == 1
MaxRuns == 2
MaxSession == 4
MaxToolCalls == 1
MaxMsgs == 2
MaxClawLen == 5
MaxSkills == 1000
MaxRaceSkills == 2
MaxCtxDay == 1
MaxAppends == 2
MaxConv == 3
MaxBackground == 2

Days == 0..MaxDay
Slots == 0..MaxSlot
NoDate == -1

\* No chat id: what _get_gmail_push_chat_id returns as None.
NoChat == 0

TaskIds == {"report", "other"}
Triggers == {"chat", "cli", "hb", "push"}

----------------------------------------------------------------------------
(* Text helpers *)

RECURSIVE LStrip(_)
LStrip(t) == IF t # <<>> /\ Head(t) \in {" ", "\n"} THEN LStrip(Tail(t)) ELSE t

RECURSIVE RStrip(_)
RStrip(t) ==
    IF t # <<>> /\ t[Len(t)] \in {" ", "\n"} THEN RStrip(SubSeq(t, 1, Len(t) - 1)) ELSE t

\* str.strip()
Strip(t) == RStrip(LStrip(t))

IsPrefix(s, t) == Len(s) <= Len(t) /\ SubSeq(t, 1, Len(s)) = s

RemoveAt(s, i) == SubSeq(s, 1, i - 1) \o SubSeq(s, i + 1, Len(s))

----------------------------------------------------------------------------
(* Scheduled tasks: src/webhook.py *)

\* A schedule entry. time is what entry.get("time") holds: "hhmm" is a
\* well-formed HH:MM that falls on slot `at`, "missing" is an absent or empty
\* time, "unparsable" a text int() or the unpacking rejects ("abc", "07"),
\* "out_of_range" a text that parses to numbers no time of day has ("24:00").
Entry(kind, at, task) == [time_kind |-> kind, time_at |-> at, task_id |-> task]

\* The schedule files the model starts from.
Schedules ==
    { << Entry("hhmm", 1, "report") >>,
      << Entry("hhmm", 1, "report"), Entry("hhmm", 1, "report") >>,
      << Entry("missing", 0, "other"), Entry("unparsable", 0, "report"),
         Entry("hhmm", 0, "") >>,
      << Entry("hhmm", 1, "report"), Entry("out_of_range", 0, "other") >> }

\* entry.get("time") or "00:00", then hour, minute = map(int, ...): the slot
\* of the scheduled time, for the entries the parse accepts.
ScheduledSlot(entry) == IF entry.time_kind = "missing" THEN 0 ELSE entry.time_at

\* One pass of the for loop of _get_due_tasks over one entry:
\* "skip" (continue), "raise" (now.replace rejects the hour or minute),
\* "due" (appended) or "wait" (not appended).
DueStep(entry, today, slot, lr) ==
    IF entry.task_id = "" THEN "skip"
    ELSE IF lr[entry.task_id] = today THEN "skip"
    ELSE IF entry.time_kind = "unparsable" THEN "skip"
    ELSE IF entry.time_kind = "out_of_range" THEN "raise"
    ELSE IF slot >= ScheduledSlot(entry) THEN "due"
    ELSE "wait"

RECURSIVE DueLoop(_, _, _, _)
DueLoop(entries, today, slot, lr) ==
    IF entries = <<>> THEN [raised |-> FALSE, due |-> <<>>]
    ELSE LET step == DueStep(Head(entries), today, slot, lr)
             rest == DueLoop(Tail(entries), today, slot, lr)
         IN  IF step = "raise" THEN [raised |-> TRUE, due |-> <<>>]
             ELSE IF rest.raised THEN rest
             ELSE IF step = "due"
                  THEN [raised |-> FALSE, due |-> <<Head(entries)>> \o rest.due]
                  ELSE rest

\* _get_due_tasks(): ZoneInfo(DOOT_SCHEDULE_TZ) raises for an unknown zone.
GetDueTasks(tzok, t, lr, sched) ==
    IF ~tzok THEN [raised |-> TRUE, due |-> <<>>]
    ELSE DueLoop(sched, t.day, t.slot, lr)

DueNow == GetDueTasks(tz_ok, now, last_run, schedule)

\* _save_last_run(task_id, date_str)
SaveLastRun(lr, task, date) == [lr EXCEPT ![task] = date]

\* A kicked-off run of _run_scheduled_task_async: "created" (create_task done,
\* body not started), "thread" (awaiting asyncio.to_thread), "resumed"
\* (to_thread returned, rest of the body not yet run).
Run(entry) == [task_id |-> entry.task_id, today |-> NoDate, pc |-> "created", result |-> <<>>]

RECURSIVE SpawnAll(_)
SpawnAll(entries) ==
    IF entries = <<>> THEN <<>> ELSE <<Run(Head(entries))>> \o SpawnAll(Tail(entries))

\* What the dispatcher does in _run_report_turn: it raises, or its last_ai_text
\* is empty, white space only, or a report.
ReportOutcomes ==
    { [raised |-> TRUE, text |-> <<>>], [raised |-> FALSE, text |-> <<>>],
      [raised |-> FALSE, text |-> <<" ">>], [raised |-> FALSE, text |-> <<"report">>] }

\* _run_scheduled_task_sync / _run_report_turn: None is <<>> here, the two are
\* told apart nowhere (result_text is None or not result_text.strip()).
RunScheduledTaskSync(task, outcome) ==
    IF task # "report" \/ outcome.raised THEN <<>> ELSE outcome.text

\* A body that records the run although the report write has failed.
LastRunRegardless(lr, r, io) ==
    IF Strip(r.result) # <<>> /\ io # "last_run_write_raises"
    THEN SaveLastRun(lr, r.task_id, r.today) ELSE lr

\* The last-run file after the body of _run_scheduled_task_async has run for r:
\* _save_last_run is reached only past the early return for an empty result
\* and past the report write.
LastRunAfterFinish(lr, r, io) ==
    IF Strip(r.result) # <<>> /\ io = "ok" THEN SaveLastRun(lr, r.task_id, r.today) ELSE lr

\* What the file system does during the body: the report write or the
\* last-run write may raise OSError.
FileOutcomes == {"ok", "report_write_raises", "last_run_write_raises"}

\* How the body of _run_scheduled_task_async ends for r.
HowFinished(r, io) ==
    IF Strip(r.result) = <<>> THEN "no_output" ELSE IF io = "ok" THEN "recorded" ELSE io

\* The body of _run_scheduled_task_async up to the await.
RunStart(i) ==
    /\ i \in 1..Len(runs)
    /\ runs[i].pc = "created"
    /\ runs' = [runs EXCEPT ![i].today = now.day, ![i].pc = "thread"]
    /\ UNCHANGED <<now, tz_ok, schedule, last_run, reports, kicked, lastFinish>>
    /\ UNCHANGED <<turnVars, rtVars, memVars>>

\* asyncio.to_thread(_run_scheduled_task_sync, task_id, delivery)
RunThread(i) ==
    /\ i \in 1..Len(runs)
    /\ runs[i].pc = "thread"
    /\ \E outcome \in ReportOutcomes :
          runs' = [runs EXCEPT ![i].result = RunScheduledTaskSync(runs[i].task_id, outcome),
                               ![i].pc = "resumed"]
    /\ UNCHANGED <<now, tz_ok, schedule, last_run, reports, kicked, lastFinish>>
    /\ UNCHANGED <<turnVars, rtVars, memVars>>

\* The body of _run_scheduled_task_async after the await: no await follows, so it
\* is one step of the event loop. io is what the file system does. The e-mail and
\* the Telegram notice are sent inside their own try blocks and leave no state.
RunFinish(i) ==
    /\ i \in 1..Len(runs)
    /\ runs[i].pc = "resumed"
    /\ LET r == runs[i]
       IN  \E io \in FileOutcomes :
           /\ Strip(r.result) = <<>> => io = "ok"
           /\ runs' = RemoveAt(runs, i)
           /\ lastFinish' = [task_id |-> r.task_id, how |-> HowFinished(r, io)]
           /\ reports' = IF Strip(r.result) = <<>> \/ io = "report_write_raises"
                         THEN reports
                         ELSE [reports EXCEPT ![r.today] = Strip(r.result)]
           /\ last_run' = LastRunAfterFinish(last_run, r, io)
    /\ UNCHANGED <<now, tz_ok, schedule, kicked>>
    /\ UNCHANGED <<turnVars, rtVars, memVars>>

----------------------------------------------------------------------------
(* Messages and the session file: src/session.py *)

\* Message content is a str or a list of content blocks.
Str(lines) == [k |-> "str", lines |-> lines, blocks |-> <<>>]
Blocks(bs) == [k |-> "blocks", lines |-> <<>>, blocks |-> bs]
TextBlock(lines) == [type |-> "text", text |-> lines]
ToolUseBlock == [type |-> "tool_use", text |-> <<>>]

HumanMessage(content) == [role |-> "human", content |-> content]
AIMessage(content) == [role |-> "ai", content |-> content]
SystemMessage(content) == [role |-> "system", content |-> content]
ToolMessage(content) == [role |-> "tool", content |-> content]

\* str(block) of a block that is not plain text, str(content) of a list.
ReprBlock == <<"{tool_use}">>
ReprList == <<"[blocks]">>

\* block.get("text", str(block)): a tool_use block has no "text" key.
BlockText(b) == IF b.type = "text" THEN b.text ELSE ReprBlock

\* "\n".join(parts)
RECURSIVE JoinLines(_)
JoinLines(parts) ==
    IF parts = <<>> THEN <<>>
    ELSE IF Len(parts) = 1 THEN parts[1]
    ELSE parts[1] \o <<"\n">> \o JoinLines(Tail(parts))

\* One row of the JSON array in the session file. An item that is no JSON
\* object has dict = FALSE; has_content = FALSE is a missing or null content.
Row(role, lines) == [dict |-> TRUE, role |-> role, has_content |-> TRUE, content |-> lines]

\* A save_session that writes a row for every message, whatever its type.
SaveRowAnyRole(msg) ==
    << Row(msg.role,
           IF msg.content.k = "blocks"
           THEN JoinLines([i \in 1..Len(msg.content.blocks) |-> BlockText(msg.content.blocks[i])])
           ELSE msg.content.lines) >>

\* The rows save_session appends for one message (none for a message that is
\* neither a HumanMessage nor an AIMessage).
SaveRow(msg) ==
    IF msg.role = "human"
    THEN << Row("human", IF msg.content.k = "str" THEN msg.content.lines ELSE ReprList) >>
    ELSE IF msg.role = "ai"
    THEN << Row("ai",
                IF msg.content.k = "blocks"
                THEN JoinLines([i \in 1..Len(msg.content.blocks) |->
                                   BlockText(msg.content.blocks[i])])
                ELSE msg.content.lines) >>
    ELSE <<>>

RECURSIVE SaveRows(_)
SaveRows(messages) ==
    IF messages = <<>> THEN <<>> ELSE SaveRow(Head(messages)) \o SaveRows(Tail(messages))

\* json.dumps of one atom of text inside a JSON string: line break, quote and
\* backslash are written as escapes.
JsonEscape(atom) ==
    IF atom = "\n" THEN "\\n"
    ELSE IF atom = "\"" THEN "\\\""
    ELSE IF atom = "\\n" THEN "\\\\n"
    ELSE atom

\* json.loads of one atom of a JSON string.
JsonUnescape(atom) ==
    IF atom = "\\n" THEN "\n"
    ELSE IF atom = "\\\"" THEN "\""
    ELSE IF atom = "\\\\n" THEN "\\n"
    ELSE atom

JsonDumpsText(text) == [i \in 1..Len(text) |-> JsonEscape(text[i])]
JsonLoadsText(text) == [i \in 1..Len(text) |-> JsonUnescape(text[i])]

\* json.dumps / json.loads of one item of the array: the strings of a record
\* are escaped in the file.
JsonDumpsItem(row) == [row EXCEPT !.content = JsonDumpsText(@)]
JsonLoadsItem(item) == [item EXCEPT !.content = JsonLoadsText(@)]

\* The session file: absent, or text of one of these kinds: "blank" (empty or
\* white space), "malformed" (no JSON), "undecodable" (bytes that are no text),
\* "json_scalar" (a number, null, true, false), "json_object", "json_string",
\* "json_list" (items holds the array as written).
File(kind, items) == [kind |-> kind, items |-> items]

\* path.write_text(json.dumps(rows, indent=2))
WriteSessionFile(rows) == File("json_list", [i \in 1..Len(rows) |-> JsonDumpsItem(rows[i])])

\* save_session(messages): the file it leaves.
SaveSession(messages) == WriteSessionFile(SaveRows(messages))

\* The rows of the file as json.loads returns them.
FileRows(file) ==
    IF file.kind = "json_list"
    THEN [i \in 1..Len(file.items) |-> JsonLoadsItem(file.items[i])]
    ELSE <<>>

\* A load_session that passes over records without text.
LoadItemSkipEmpty(item) ==
    IF ~item.dict \/ ~item.has_content \/ item.content = <<>> THEN <<>>
    ELSE IF item.role = "human" THEN <<HumanMessage(Str(item.content))>>
    ELSE IF item.role = "ai" THEN <<AIMessage(Str(item.content))>>
    ELSE <<>>

\* The messages load_session builds for one item of the array.
LoadItem(item) ==
    IF ~item.dict THEN <<>>
    ELSE LET content == IF item.has_content THEN item.content ELSE <<>>
         IN  IF item.role = "human" THEN <<HumanMessage(Str(content))>>
             ELSE IF item.role = "ai" THEN <<AIMessage(Str(content))>>
             ELSE <<>>

RECURSIVE LoadItems(_)
LoadItems(items) ==
    IF items = <<>> THEN <<>> ELSE LoadItem(Head(items)) \o LoadItems(Tail(items))

\* load_session(): [raised, msgs]. read_text raises UnicodeDecodeError for
\* undecodable bytes, which the except clause (JSONDecodeError, OSError) does
\* not name; `for item in data` raises TypeError for a number, null or boolean;
\* over an object or a string it iterates over keys or characters, none a dict.
LoadSession(file) ==
    IF file.kind \in {"absent", "blank", "malformed"} THEN [raised |-> FALSE, msgs |-> <<>>]
    ELSE IF file.kind \in {"undecodable", "json_scalar"} THEN [raised |-> TRUE, msgs |-> <<>>]
    ELSE IF file.kind \in {"json_object", "json_string"} THEN [raised |-> FALSE, msgs |-> <<>>]
    ELSE [raised |-> FALSE, msgs |-> LoadItems(FileRows(file))]

----------------------------------------------------------------------------
(* The dispatcher: src/orchestrator_runner.py, src/graph/orchestrator.py *)

ContextText == <<"context">>
AnswerText == <<"a<b">>
HeartbeatOkText == <<"HEARTBEAT_OK">>

\* _global_context_message()
GlobalContextMessage == SystemMessage(Str(ContextText))

\* inject_global_context: prepend the context message.
InjectGlobalContext(messages) == <<GlobalContextMessage>> \o messages

\* One round of the delegating loop: the model's message that invokes a
\* capability (a text block and a tool_use block), then the capability's result.
ToolResultText == <<"result">>

ToolRound ==
    << AIMessage(Blocks(<<TextBlock(<<"plan">>), ToolUseBlock>>)),
       ToolMessage(Str(ToolResultText)) >>

RECURSIVE ToolRounds(_)
ToolRounds(n) == IF n = 0 THEN <<>> ELSE ToolRound \o ToolRounds(n - 1)

\* react_orchestrator_node: the agent returns its input followed by the rounds
\* of capability invocations and the final answer.
ReactOrchestratorNode(messages, calls, final) ==
    messages \o ToolRounds(calls) \o <<AIMessage(final)>>

\* _extract_last_ai_text: the last AIMessage with content; of a list only the
\* text blocks with text.
TextBlocksOf(bs) ==
    LET idx == {i \in 1..Len(bs) : bs[i].type = "text" /\ bs[i].text # <<>>}
        RECURSIVE Pick(_)
        Pick(i) == IF i > Len(bs) THEN <<>>
                   ELSE IF i \in idx THEN <<bs[i].text>> \o Pick(i + 1)
                   ELSE Pick(i + 1)
    IN  Pick(1)

HasContent(c) == IF c.k = "str" THEN c.lines # <<>> ELSE c.blocks # <<>>

RECURSIVE ExtractLastAiText(_)
ExtractLastAiText(messages) ==
    IF messages = <<>> THEN <<>>
    ELSE LET msg == messages[Len(messages)]
         IN  IF msg.role = "ai" /\ HasContent(msg.content)
             THEN IF msg.content.k = "blocks"
                  THEN JoinLines(TextBlocksOf(msg.content.blocks))
                  ELSE msg.content.lines
             ELSE ExtractLastAiText(SubSeq(messages, 1, Len(messages) - 1))

\* invoke_orchestrator(messages): the graph inject_context -> react_orchestrator.
InvokeOrchestrator(messages, calls, final) ==
    LET result == ReactOrchestratorNode(InjectGlobalContext(messages), calls, final)
    IN  [messages |-> result, last_ai_text |-> ExtractLastAiText(result)]

\* What the hosted model may do in one dispatcher call: raise, or invoke
\* capabilities `calls` times and answer with `final`.
FinalAnswers(trigger) ==
    IF trigger = "hb" THEN {Str(HeartbeatOkText), Str(<<"heartbeat_ok">>), Str(AnswerText)}
    ELSE IF trigger = "push" THEN {Str(AnswerText), Str(<<>>), Str(<<" ">>)}
    ELSE {Str(AnswerText)}

----------------------------------------------------------------------------
(* Outbound delivery: src/webhook.py, src/utils/telegram_format.py *)

ApologyText == <<"Something went wrong. Please try again later.">>
NoReplyText == <<"No reply generated.">>

\* telegram_html_escape on one atom of text.
TelegramHtmlEscape(atom) == IF atom = "a<b" THEN "a&lt;b" ELSE atom

\* format_orchestrator_reply_for_telegram(text)
FormatReply(text) == [i \in 1..Len(text) |-> TelegramHtmlEscape(text[i])]

\* _send_telegram_text: "skipped" without TELEGRAM_BOT_TOKEN; asyncio.run raises
\* RuntimeError when the caller already runs on the event loop; else the Bot
\* API call succeeds or raises.
SendTelegramText(token, in_loop, api_ok) ==
    IF ~token THEN "skipped"
    ELSE IF in_loop THEN "raised"
    ELSE IF api_ok THEN "sent" ELSE "raised"

\* The formatted send, then on an exception the plain send: what reaches the
\* chat ("none" if nothing does) and whether the second send raised too.
SendWithFallback(text, token, in_loop, api1, api2) ==
    LET first == SendTelegramText(token, in_loop, api1)
        second == SendTelegramText(token, in_loop, api2)
    IN  [sent |-> first = "sent" \/ (first = "raised" /\ second = "sent"),
         text |-> IF first = "sent" THEN FormatReply(text)
                  ELSE IF first = "raised" /\ second = "sent" THEN text ELSE <<>>,
         raised |-> first = "raised" /\ second = "raised"]

\* str.upper() on one atom of text.
Upper(atom) == IF atom = "heartbeat_ok" THEN "HEARTBEAT_OK" ELSE atom

\* _is_heartbeat_ok(last_ai_text): empty after strip, or the upper-cased text
\* is HEARTBEAT_OK or starts with it.
IsHeartbeatOk(text) ==
    LET t == Strip(text) IN t = <<>> \/ Upper(Head(t)) = "HEARTBEAT_OK"

NotDelivered == [sent |-> FALSE, text |-> <<>>]
Delivery(text) == [sent |-> TRUE, text |-> text]

\* The calls of _send_telegram_text the formatted send with its fallback makes,
\* each with its outcome: the plain send is called when the formatted one raised.
SendCalls(token, in_loop, api1, api2) ==
    LET first == SendTelegramText(token, in_loop, api1)
    IN  IF first = "raised" THEN <<first, SendTelegramText(token, in_loop, api2)>>
        ELSE <<first>>

----------------------------------------------------------------------------
(* Triggers: src/webhook.py, src/cli.py *)

UserText(a) == IF a = "chat" THEN <<"hi">> ELSE IF a = "cli" THEN <<"ask">> ELSE <<"heartbeat">>

\* The dispatcher answers only while the rows of its result fit the bound.
RoomFor(messages, calls) == Len(SaveRows(messages)) + calls + 1 <= MaxSession

\* The dispatcher call of trigger a: it raises (ok = FALSE) or returns.
Dispatched(a, ok, calls, final) ==
    IF ok THEN InvokeOrchestrator(mem[a], calls, final).messages ELSE mem[a]

\* A save that adds its rows to the rows the file holds.
DoSaveAppend(a) ==
    /\ session_file' = WriteSessionFile(FileRows(session_file) \o SaveRows(mem[a]))
    /\ lastSaver' = a
    /\ saved' = [saved EXCEPT ![a] = TRUE]

\* save_session(result["messages"]) by trigger a.
DoSave(a) ==
    /\ session_file' = SaveSession(mem[a])
    /\ lastSaver' = a
    /\ saved' = [saved EXCEPT ![a] = TRUE]

\* Trigger a begins a turn on the session file as it is.
BeginTurn(a) ==
    /\ turnStart' = [turnStart EXCEPT ![a] = FileRows(session_file)]
    /\ saved' = [saved EXCEPT ![a] = FALSE]
    /\ delivered' = [delivered EXCEPT ![a] = NotDelivered]
    /\ outbound' = [outbound EXCEPT ![a] = <<>>]

\* The function or process of trigger a ends: its locals are gone.
EndTurn(a) ==
    /\ mem' = [mem EXCEPT ![a] = <<>>]
    /\ turnStart' = [turnStart EXCEPT ![a] = <<>>]
    /\ saved' = [saved EXCEPT ![a] = FALSE]
    /\ delivered' = [delivered EXCEPT ![a] = NotDelivered]
    /\ outbound' = [outbound EXCEPT ![a] = <<>>]

\* process_telegram_message: load_session() and append the user's message.
\* Called by _on_telegram_update (the webhook), the chat id has been stored
\* by _set_last_telegram_chat_id; called by the handler of telegram_poll, not.
ChatLoad ==
    /\ pc["chat"] = "idle"
    /\ LET r == LoadSession(session_file)
       IN  IF r.raised
           THEN pc' = [pc EXCEPT !["chat"] = "apology"] /\ UNCHANGED mem
           ELSE /\ pc' = [pc EXCEPT !["chat"] = "invoke"]
                /\ mem' = [mem EXCEPT !["chat"] =
                              r.msgs \o <<HumanMessage(Str(UserText("chat")))>>]
    /\ BeginTurn("chat")
    /\ \E via_webhook \in BOOLEAN : chat_id_known' = (chat_id_known \/ via_webhook)
    /\ UNCHANGED <<session_file, cli_mode, lastSaver>>
    /\ UNCHANGED <<schedVars, rtVars, memVars>>

\* A handler that writes the session with the user's message when the
\* dispatcher raises.
ChatInvokePersisting ==
    /\ pc["chat"] = "invoke"
    /\ \/ /\ pc' = [pc EXCEPT !["chat"] = "apology"]
          /\ session_file' = SaveSession(mem["chat"])
          /\ UNCHANGED mem
       \/ \E calls \in 0..MaxToolCalls, final \in FinalAnswers("chat") :
             /\ RoomFor(mem["chat"], calls)
             /\ mem' = [mem EXCEPT !["chat"] = Dispatched("chat", TRUE, calls, final)]
             /\ pc' = [pc EXCEPT !["chat"] = "save"]
             /\ UNCHANGED session_file
    /\ UNCHANGED <<cli_mode, chat_id_known, turnStart, saved, lastSaver, delivered, outbound>>
    /\ UNCHANGED <<schedVars, rtVars, memVars>>

\* process_telegram_message: invoke_orchestrator(messages)
ChatInvoke ==
    /\ pc["chat"] = "invoke"
    /\ \/ /\ pc' = [pc EXCEPT !["chat"] = "apology"]
          /\ UNCHANGED mem
       \/ \E calls \in 0..MaxToolCalls, final \in FinalAnswers("chat") :
             /\ RoomFor(mem["chat"], calls)
             /\ mem' = [mem EXCEPT !["chat"] = Dispatched("chat", TRUE, calls, final)]
             /\ pc' = [pc EXCEPT !["chat"] = "save"]
    /\ UNCHANGED <<session_file, cli_mode, chat_id_known, turnStart, saved, lastSaver, delivered, outbound>>
    /\ UNCHANGED <<schedVars, rtVars, memVars>>

\* process_telegram_message: save_session(result.get("messages", [])); an
\* OSError of the write goes to the outer except.
ChatSave ==
    /\ pc["chat"] = "save"
    /\ \/ /\ DoSave("chat")
          /\ pc' = [pc EXCEPT !["chat"] = "send"]
       \/ /\ pc' = [pc EXCEPT !["chat"] = "apology"]
          /\ UNCHANGED <<session_file, saved, lastSaver>>
    /\ UNCHANGED <<mem, cli_mode, chat_id_known, turnStart, delivered, outbound>>
    /\ UNCHANGED <<schedVars, rtVars, memVars>>

\* process_telegram_message: format and send the reply; on an exception send it
\* plain; if that raises too, the outer except takes over. in_loop: the caller
\* is the handler of telegram_poll, a coroutine of the event loop.
ChatSend ==
    /\ pc["chat"] = "send"
    /\ LET last_ai_text == ExtractLastAiText(mem["chat"])
           text == Strip(IF last_ai_text = <<>> THEN NoReplyText ELSE last_ai_text)
       IN  \E token \in BOOLEAN, in_loop \in BOOLEAN, api1 \in BOOLEAN, api2 \in BOOLEAN :
           LET s == SendWithFallback(text, token, in_loop, api1, api2)
           IN  /\ delivered' = [delivered EXCEPT !["chat"] =
                                   IF s.sent THEN Delivery(s.text) ELSE @]
               /\ outbound' = [outbound EXCEPT !["chat"] =
                                  @ \o SendCalls(token, in_loop, api1, api2)]
               /\ pc' = [pc EXCEPT !["chat"] = IF s.raised THEN "apology" ELSE "done"]
    /\ UNCHANGED <<session_file, mem, cli_mode, chat_id_known, turnStart, saved, lastSaver>>
    /\ UNCHANGED <<schedVars, rtVars, memVars>>

\* process_telegram_message: the outer except sends the fixed apology.
ChatApology ==
    /\ pc["chat"] = "apology"
    /\ \E token \in BOOLEAN, in_loop \in BOOLEAN, api \in BOOLEAN :
          /\ delivered' = [delivered EXCEPT !["chat"] =
                 IF SendTelegramText(token, in_loop, api) = "sent"
                 THEN Delivery(ApologyText) ELSE @]
          /\ outbound' = [outbound EXCEPT !["chat"] =
                 @ \o <<SendTelegramText(token, in_loop, api)>>]
    /\ pc' = [pc EXCEPT !["chat"] = "done"]
    /\ UNCHANGED <<session_file, mem, cli_mode, chat_id_known, turnStart, saved, lastSaver>>
    /\ UNCHANGED <<schedVars, rtVars, memVars>>

\* process_telegram_message returns.
ChatReturn ==
    /\ pc["chat"] = "done"
    /\ pc' = [pc EXCEPT !["chat"] = "idle"]
    /\ EndTurn("chat")
    /\ UNCHANGED <<session_file, cli_mode, chat_id_known, lastSaver>>
    /\ UNCHANGED <<schedVars, rtVars, memVars>>

\* _heartbeat_loop: asyncio.sleep(HEARTBEAT_INTERVAL_SEC) returns; the clock has
\* moved on by then (time of day advances, then the date rolls over). The
\* event loop runs the tasks that are ready before the timer of the sleep fires,
\* so the runs just created have begun.
HbSleep ==
    /\ pc["hb"] = "sleep"
    /\ \A i \in 1..Len(runs) : runs[i].pc # "created"
    /\ pc' = [pc EXCEPT !["hb"] = "load"]
    /\ outbound' = [outbound EXCEPT !["hb"] = <<>>]
    /\ \/ UNCHANGED now
       \/ now.slot < MaxSlot /\ now' = [now EXCEPT !.slot = now.slot + 1]
       \/ now.slot = MaxSlot /\ now.day < MaxDay /\ now' = [day |-> now.day + 1, slot |-> 0]
    /\ UNCHANGED <<tz_ok, schedule, last_run, reports, runs, kicked, lastFinish>>
    /\ UNCHANGED <<session_file, mem, cli_mode, chat_id_known, turnStart, saved, lastSaver, delivered>>
    /\ UNCHANGED <<rtVars, memVars>>

\* _run_heartbeat_turn up to the dispatcher call. _load_heartbeat_checklist runs
\* before the try and catches OSError only: HEARTBEAT.md holding bytes that are
\* no UTF-8 raises UnicodeDecodeError through to_thread into the loop.
HbLoad ==
    /\ pc["hb"] = "load"
    /\ \E checklist \in {"ok", "undecodable"} :
          LET r == LoadSession(session_file)
          IN  IF checklist = "undecodable"
              THEN pc' = [pc EXCEPT !["hb"] = "crashed"] /\ UNCHANGED mem
              ELSE IF r.raised
              THEN pc' = [pc EXCEPT !["hb"] = "after_none"] /\ UNCHANGED mem
              ELSE /\ pc' = [pc EXCEPT !["hb"] = "invoke"]
                   /\ mem' = [mem EXCEPT !["hb"] =
                                 r.msgs \o <<HumanMessage(Str(UserText("hb")))>>]
    /\ BeginTurn("hb")
    /\ UNCHANGED <<session_file, cli_mode, chat_id_known, lastSaver>>
    /\ UNCHANGED <<schedVars, rtVars, memVars>>

\* _run_heartbeat_turn: invoke_orchestrator(messages); an exception makes the
\* turn return None.
HbInvoke ==
    /\ pc["hb"] = "invoke"
    /\ \/ /\ pc' = [pc EXCEPT !["hb"] = "after_none"]
          /\ UNCHANGED mem
       \/ \E calls \in 0..MaxToolCalls, final \in FinalAnswers("hb") :
             /\ RoomFor(mem["hb"], calls)
             /\ mem' = [mem EXCEPT !["hb"] = Dispatched("hb", TRUE, calls, final)]
             /\ pc' = [pc EXCEPT !["hb"] = "save"]
    /\ UNCHANGED <<session_file, cli_mode, chat_id_known, turnStart, saved, lastSaver, delivered, outbound>>
    /\ UNCHANGED <<schedVars, rtVars, memVars>>

\* _run_heartbeat_turn: save_session(result.get("messages", []))
HbSave ==
    /\ pc["hb"] = "save"
    /\ \/ /\ DoSave("hb")
          /\ pc' = [pc EXCEPT !["hb"] = "after"]
       \/ /\ pc' = [pc EXCEPT !["hb"] = "after_none"]
          /\ UNCHANGED <<session_file, saved, lastSaver>>
    /\ UNCHANGED <<mem, cli_mode, chat_id_known, turnStart, delivered, outbound>>
    /\ UNCHANGED <<schedVars, rtVars, memVars>>

\* What the loop hands to the chat for the result of the turn (None when
\* turn_ok is FALSE). The loop is a coroutine of the event loop, so in_loop
\* holds for its calls of _send_telegram_text.
HeartbeatDelivery(turn_ok, last_ai_text, chat_known, token, api1, api2) ==
    LET text == Strip(last_ai_text)
        s == SendWithFallback(text, token, TRUE, api1, api2)
    IN  IF turn_ok /\ ~IsHeartbeatOk(text) /\ chat_known /\ s.sent
        THEN Delivery(s.text) ELSE NotDelivered

\* The calls of _send_telegram_text the loop makes for the result of the turn.
HeartbeatOutbound(turn_ok, last_ai_text, chat_known, token, api1, api2) ==
    IF ~turn_ok \/ IsHeartbeatOk(Strip(last_ai_text)) THEN <<>>
    ELSE IF ~chat_known THEN <<>>
    ELSE SendCalls(token, TRUE, api1, api2)

\* The runs the loop creates for the due entries.
KickOff(due) == SpawnAll(due)

\* kicked after create_task for each of the due entries.
RECURSIVE MarkKicked(_, _, _)
MarkKicked(k, due, day) ==
    IF due = <<>> THEN k
    ELSE MarkKicked([k EXCEPT ![Head(due).task_id] = day], Tail(due), day)

\* _heartbeat_loop after the turn, up to the next sleep: no await in between.
\* The result is delivered unless it says HEARTBEAT_OK, then
\* for entry in _get_due_tasks(): asyncio.create_task(...). Nothing catches an
\* exception of _get_due_tasks: it ends the loop's task.
HbAfterTurn ==
    /\ pc["hb"] \in {"after", "after_none"}
    /\ \E token \in BOOLEAN, api1 \in BOOLEAN, api2 \in BOOLEAN :
          /\ delivered' = [delivered EXCEPT !["hb"] =
                 HeartbeatDelivery(pc["hb"] = "after", ExtractLastAiText(mem["hb"]),
                                   chat_id_known, token, api1, api2)]
          /\ outbound' = [outbound EXCEPT !["hb"] =
                 HeartbeatOutbound(pc["hb"] = "after", ExtractLastAiText(mem["hb"]),
                                   chat_id_known, token, api1, api2)]
    /\ mem' = [mem EXCEPT !["hb"] = <<>>]
    /\ turnStart' = [turnStart EXCEPT !["hb"] = <<>>]
    /\ saved' = [saved EXCEPT !["hb"] = FALSE]
    /\ LET d == DueNow
       IN  IF d.raised
           THEN /\ pc' = [pc EXCEPT !["hb"] = "crashed"]
                /\ UNCHANGED <<runs, kicked>>
           ELSE /\ Len(runs) + Len(d.due) <= MaxRuns
                /\ runs' = runs \o KickOff(d.due)
                /\ kicked' = MarkKicked(kicked, d.due, now.day)
                /\ pc' = [pc EXCEPT !["hb"] = "sleep"]
    /\ UNCHANGED <<now, tz_ok, schedule, last_run, reports, lastFinish>>
    /\ UNCHANGED <<session_file, cli_mode, chat_id_known, lastSaver>>
    /\ UNCHANGED <<rtVars, memVars>>

\* _print_last_ai(messages): the last AIMessage with content, every block of it.
RECURSIVE PrintLastAi(_)
PrintLastAi(messages) ==
    IF messages = <<>> THEN NotDelivered
    ELSE LET msg == messages[Len(messages)]
         IN  IF msg.role = "ai" /\ HasContent(msg.content)
             THEN Delivery(IF msg.content.k = "blocks"
                           THEN JoinLines([i \in 1..Len(msg.content.blocks) |->
                                              BlockText(msg.content.blocks[i])])
                           ELSE msg.content.lines)
             ELSE PrintLastAi(SubSeq(messages, 1, Len(messages) - 1))

\* The messages a turn of the interactive loop starts from: the list the loop
\* keeps in memory (messages = result_messages), not the file.
LoopTurnBase(in_memory, file) == in_memory

\* What the console shows of an exception no except clause of the command
\* catches: the traceback with the exception's text.
TracebackText == <<"Traceback (most recent call last)">>

\* An exception leaves the command of the CLI: the process ends with the
\* traceback on the console.
CliCrash ==
    /\ pc' = [pc EXCEPT !["cli"] = "crashed"]
    /\ mem' = [mem EXCEPT !["cli"] = <<>>]
    /\ turnStart' = [turnStart EXCEPT !["cli"] = <<>>]
    /\ saved' = [saved EXCEPT !["cli"] = FALSE]
    /\ delivered' = [delivered EXCEPT !["cli"] = Delivery(TracebackText)]
    /\ outbound' = [outbound EXCEPT !["cli"] = <<>>]

\* chat(message) and _run_chat_interactive(): load_session(). The one-shot
\* command appends its message right away (_run_once); the interactive loop
\* keeps the loaded list and waits for input. Nothing catches an exception of
\* load_session.
CliStart ==
    /\ pc["cli"] = "idle"
    /\ \E mode \in {"once", "loop"} :
          /\ cli_mode' = mode
          /\ IF LoadSession(session_file).raised
             THEN CliCrash
             ELSE /\ IF mode = "once"
                     THEN /\ mem' = [mem EXCEPT !["cli"] = LoadSession(session_file).msgs
                                         \o <<HumanMessage(Str(UserText("cli")))>>]
                          /\ pc' = [pc EXCEPT !["cli"] = "invoke"]
                     ELSE /\ mem' = [mem EXCEPT !["cli"] = LoadSession(session_file).msgs]
                          /\ pc' = [pc EXCEPT !["cli"] = "input"]
                  /\ BeginTurn("cli")
    /\ UNCHANGED <<session_file, chat_id_known, lastSaver>>
    /\ UNCHANGED <<schedVars, rtVars, memVars>>

\* _run_chat_interactive: a line of input begins a turn; quit, exit, an empty
\* line or end of input leaves the loop.
CliInput ==
    /\ pc["cli"] = "input"
    /\ \/ /\ mem' = [mem EXCEPT !["cli"] =
                        LoopTurnBase(@, LoadSession(session_file).msgs)
                        \o <<HumanMessage(Str(UserText("cli")))>>]
          /\ pc' = [pc EXCEPT !["cli"] = "invoke"]
          /\ BeginTurn("cli")
       \/ /\ pc' = [pc EXCEPT !["cli"] = "idle"]
          /\ EndTurn("cli")
    /\ UNCHANGED <<session_file, cli_mode, chat_id_known, lastSaver>>
    /\ UNCHANGED <<schedVars, rtVars, memVars>>

\* _invoke_and_print: orchestrator.invoke, then _print_last_ai. No except
\* clause: an exception ends the process.
CliInvoke ==
    /\ pc["cli"] = "invoke"
    /\ \/ CliCrash
       \/ \E calls \in 0..MaxToolCalls, final \in FinalAnswers("cli") :
             /\ RoomFor(mem["cli"], calls)
             /\ mem' = [mem EXCEPT !["cli"] = Dispatched("cli", TRUE, calls, final)]
             /\ delivered' = [delivered EXCEPT !["cli"] =
                                 PrintLastAi(Dispatched("cli", TRUE, calls, final))]
             /\ pc' = [pc EXCEPT !["cli"] = "save"]
             /\ UNCHANGED <<turnStart, saved, outbound>>
    /\ UNCHANGED <<session_file, cli_mode, chat_id_known, lastSaver>>
    /\ UNCHANGED <<schedVars, rtVars, memVars>>

\* save_session(result_messages); the one-shot command is done, the loop
\* keeps result_messages as its list and waits for input. Nothing catches an
\* OSError of the write.
CliSave ==
    /\ pc["cli"] = "save"
    /\ \/ /\ DoSave("cli")
          /\ pc' = [pc EXCEPT !["cli"] = IF cli_mode = "once" THEN "done" ELSE "input"]
          /\ UNCHANGED <<mem, turnStart, delivered, outbound>>
       \/ /\ CliCrash
          /\ UNCHANGED <<session_file, lastSaver>>
    /\ UNCHANGED <<cli_mode, chat_id_known>>
    /\ UNCHANGED <<schedVars, rtVars, memVars>>

\* chat(message) returns or the process has ended with an exception: the
\* shell has the console again.
CliReturn ==
    /\ pc["cli"] \in {"done", "crashed"}
    /\ pc' = [pc EXCEPT !["cli"] = "idle"]
    /\ EndTurn("cli")
    /\ UNCHANGED <<session_file, cli_mode, chat_id_known, lastSaver>>
    /\ UNCHANGED <<schedVars, rtVars, memVars>>

\* The prompt of on_gmail_push.
PushPromptText == <<"A new email just arrived.">>

\* on_gmail_push up to the dispatcher call: the conversation is the prompt alone.
PushStart ==
    /\ pc["push"] = "idle"
    /\ mem' = [mem EXCEPT !["push"] = <<HumanMessage(Str(PushPromptText))>>]
    /\ pc' = [pc EXCEPT !["push"] = "invoke"]
    /\ UNCHANGED <<session_file, cli_mode, chat_id_known, turnStart, saved, lastSaver,
                   delivered, outbound>>
    /\ UNCHANGED <<schedVars, rtVars, memVars>>

\* on_gmail_push: invoke_orchestrator([HumanMessage(content=prompt)]); an
\* exception goes to the outer except, which logs it.
PushInvoke ==
    /\ pc["push"] = "invoke"
    /\ \/ /\ pc' = [pc EXCEPT !["push"] = "done"]
          /\ UNCHANGED mem
       \/ \E calls \in 0..MaxToolCalls, final \in FinalAnswers("push") :
             /\ mem' = [mem EXCEPT !["push"] = Dispatched("push", TRUE, calls, final)]
             /\ pc' = [pc EXCEPT !["push"] = "deliver"]
    /\ UNCHANGED <<session_file, cli_mode, chat_id_known, turnStart, saved, lastSaver,
                   delivered, outbound>>
    /\ UNCHANGED <<schedVars, rtVars, memVars>>

\* A push turn that sends whatever the reply and the chat id are.
PushOutboundAlways(last_ai_text, chat_known, token, api1, api2) ==
    SendCalls(token, FALSE, api1, api2)

\* The calls of _send_telegram_text on_gmail_push makes for last_ai_text: none
\* for an empty reply, none without a chat id. on_gmail_push is a background
\* task of the thread pool, not a coroutine of the event loop.
PushOutbound(last_ai_text, chat_known, token, api1, api2) ==
    IF last_ai_text = <<>> \/ ~chat_known THEN <<>>
    ELSE SendCalls(token, FALSE, api1, api2)

\* What on_gmail_push hands to the chat.
PushDelivery(last_ai_text, chat_known, token, api1, api2) ==
    LET s == SendWithFallback(Strip(last_ai_text), token, FALSE, api1, api2)
    IN  IF last_ai_text # <<>> /\ chat_known /\ s.sent
        THEN Delivery(s.text) ELSE NotDelivered

\* on_gmail_push after the dispatcher call: if last_ai_text: ... if chat_id: ...
PushDeliver ==
    /\ pc["push"] = "deliver"
    /\ \E token \in BOOLEAN, api1 \in BOOLEAN, api2 \in BOOLEAN :
          LET last_ai_text == ExtractLastAiText(mem["push"])
          IN  /\ outbound' = [outbound EXCEPT !["push"] =
                     PushOutbound(last_ai_text, chat_id_known, token, api1, api2)]
              /\ delivered' = [delivered EXCEPT !["push"] =
                     PushDelivery(last_ai_text, chat_id_known, token, api1, api2)]
    /\ pc' = [pc EXCEPT !["push"] = "done"]
    /\ UNCHANGED <<session_file, mem, cli_mode, chat_id_known, turnStart, saved, lastSaver>>
    /\ UNCHANGED <<schedVars, rtVars, memVars>>

\* on_gmail_push returns.
PushReturn ==
    /\ pc["push"] = "done"
    /\ pc' = [pc EXCEPT !["push"] = "idle"]
    /\ EndTurn("push")
    /\ UNCHANGED <<session_file, cli_mode, chat_id_known, lastSaver>>
    /\ UNCHANGED <<schedVars, rtVars, memVars>>

----------------------------------------------------------------------------
(* The session store on its own: src/session.py *)

\* Texts of a message: empty, a word, white space with a line break, and text
\* holding a quote and a backslash followed by n.
StoreTexts == { <<>>, <<"x">>, <<" ", "\n", "x">>, <<"\"", "\\n">> }

\* Messages with plain-text content of a user or the assistant.
PlainMessages ==
    {HumanMessage(Str(t)) : t \in StoreTexts} \cup {AIMessage(Str(t)) : t \in StoreTexts}

\* Messages the dispatcher's result may hold besides.
OtherMessages ==
    { AIMessage(Blocks(<<TextBlock(<<"x">>), ToolUseBlock>>)),
      HumanMessage(Blocks(<<TextBlock(<<"x">>)>>)),
      SystemMessage(Str(<<"x">>)),
      ToolMessage(Str(<<"x">>)) }

StoreMessages == PlainMessages \cup OtherMessages

\* The lists of at most n elements of S.
RECURSIVE ListsUpTo(_, _)
ListsUpTo(S, n) ==
    IF n = 0 THEN {<<>>}
    ELSE LET shorter == ListsUpTo(S, n - 1)
         IN  shorter \cup {l \o <<x>> : l \in shorter, x \in S}

\* Items a JSON array in the session file may hold: records written by
\* save_session or by hand, and items that are no object.
StoredItems ==
    { [dict |-> TRUE, role |-> "human", has_content |-> TRUE, content |-> <<"x">>],
      [dict |-> TRUE, role |-> "ai", has_content |-> FALSE, content |-> <<>>],
      [dict |-> TRUE, role |-> "system", has_content |-> TRUE, content |-> <<"x">>],
      [dict |-> TRUE, role |-> "", has_content |-> TRUE, content |-> <<"x">>],
      [dict |-> FALSE, role |-> "", has_content |-> FALSE, content |-> <<>>] }

\* The files load_session may find.
StoredFiles ==
    {File(k, <<>>) : k \in {"absent", "blank", "malformed", "undecodable",
                            "json_scalar", "json_object", "json_string"}}
    \cup {File("json_list", l) : l \in ListsUpTo(StoredItems, MaxMsgs)}

\* save_session(rt_in)
StoreSave ==
    /\ rt_pc = "start"
    /\ rt_file' = SaveSession(rt_in)
    /\ rt_pc' = "saved"
    /\ UNCHANGED <<rt_in, rt_out>>
    /\ UNCHANGED <<schedVars, turnVars, memVars>>

\* load_session(): of the file as found ("read") or after save_session ("loaded").
StoreLoad ==
    /\ rt_pc \in {"start", "saved"}
    /\ rt_out' = LoadSession(rt_file)
    /\ rt_pc' = IF rt_pc = "start" THEN "read" ELSE "loaded"
    /\ UNCHANGED <<rt_in, rt_file>>
    /\ UNCHANGED <<schedVars, turnVars, memVars>>

\* save_session of the list load_session returned.
StoreResave ==
    /\ rt_pc \in {"read", "loaded"}
    /\ ~rt_out.raised
    /\ rt_file' = SaveSession(rt_out.msgs)
    /\ rt_pc' = IF rt_pc = "read" THEN "rewritten" ELSE "resaved"
    /\ UNCHANGED <<rt_in, rt_out>>
    /\ UNCHANGED <<schedVars, turnVars, memVars>>

----------------------------------------------------------------------------
(* The memory workspace: src/memory/claw_store.py *)

\* A path is a sequence of atoms: names, "/" and "\\", white space. A file
\* system that tells upper from lower case keeps the names as written.
ClawPaths ==
    { <<"MEMORY.md">>, <<" ", "MEMORY.md", " ">>, <<"memory.md">>,
      <<"memory", "/", "2026-02-26.md">>, <<"memory", "\\", "2026-02-26.md">>,
      <<"..", "/", "MEMORY.md">>, <<"memory", "/", "not-a-date.md">>,
      <<"MEMORY.md", "/", "..", "/", "..", "/", "etc", "/", "passwd">> }

\* The contents the model appends. "\\ud800" is a lone surrogate, as json.loads
\* makes of the escape \ud800 in a tool argument: UTF-8 cannot encode it.
ClawContents == { <<"fact">>, <<" ", "fact", "\n">>, <<"fact", "\\ud800">> }

\* str.lower() on one atom of a path.
Lower(atom) == IF atom = "MEMORY.md" THEN "memory.md" ELSE atom

\* _resolve: path.strip().replace("\\", "/")
NormalizePath(path) ==
    LET t == Strip(path) IN [i \in 1..Len(t) |-> IF t[i] = "\\" THEN "/" ELSE t[i]]

\* strftime("%Y-%m-%d") of day number d, and the name of its daily document.
DateLabel(d) ==
    CASE d = -1 -> "2026-02-25" [] d = 0 -> "2026-02-26" [] d = 1 -> "2026-02-27"
      [] d = 2 -> "2026-02-28" [] d = 3 -> "2026-03-01" [] OTHER -> "2026-03-02"

DateFile(d) ==
    CASE d = -1 -> "2026-02-25.md" [] d = 0 -> "2026-02-26.md" [] d = 1 -> "2026-02-27.md"
      [] d = 2 -> "2026-02-28.md" [] d = 3 -> "2026-03-01.md" [] OTHER -> "2026-03-02.md"

\* _ALLOWED_PATH.match(path): ^(MEMORY\.md|memory/\d{4}-\d{2}-\d{2}\.md)$
\* with re.IGNORECASE.
AllowedPath(p) ==
    \/ Len(p) = 1 /\ Lower(p[1]) = "memory.md"
    \/ Len(p) = 3 /\ Lower(p[1]) = "memory" /\ p[2] = "/"
          /\ Lower(p[3]) \in {DateFile(d) : d \in -1..(MaxCtxDay + 2)}

\* _resolve(path): the location under the root, or None ([ok |-> FALSE]) for a
\* path the pattern rejects or one that resolves to a place outside the root
\* (the directory is a symbolic link that leaves it).
Resolve(path, fs) ==
    LET p == NormalizePath(path)
    IN  IF ~AllowedPath(p) THEN [ok |-> FALSE, loc |-> <<>>]
        ELSE IF Len(p) = 3 /\ fs.dirs[p[1]] = "link_out" THEN [ok |-> FALSE, loc |-> <<>>]
        ELSE [ok |-> TRUE, loc |-> p]

\* read_memory_file(path)["text"], without a line range.
ReadMemoryFile(path, fs) ==
    LET r == Resolve(path, fs)
    IN  IF r.ok /\ r.loc \in DOMAIN fs.files THEN fs.files[r.loc] ELSE <<>>

\* append_memory_file: existing.rstrip() + ("\n\n" if existing.strip() else "")
\* + content.strip() + "\n"
AppendText(existing, content) ==
    RStrip(existing) \o (IF Strip(existing) # <<>> THEN <<"\n", "\n">> ELSE <<>>)
        \o Strip(content) \o <<"\n">>

\* read_memory_file(path)
ClawRead ==
    /\ \E path \in ClawPaths :
          claw_out' = [op |-> "read", path |-> path, resolved |-> Resolve(path, claw_fs),
                       text |-> ReadMemoryFile(path, claw_fs), ok |-> TRUE]
    /\ UNCHANGED claw_fs
    /\ UNCHANGED <<schedVars, turnVars, rtVars, inVars, amVars, ctxVars, ioVars>>

\* append_memory_file(path, content): a path that does not resolve is refused;
\* else the parent directory is made and the file rewritten with the content
\* appended; an OSError of the read or of opening the file is reported as a
\* failure. write_text opens the file for writing, which empties it, before it
\* encodes the text: a content UTF-8 cannot encode raises UnicodeEncodeError
\* (no OSError, so it leaves the function) with the file left empty.
ClawAppend ==
    /\ \E path \in ClawPaths, content \in ClawContents, io \in {"ok", "write_raises"} :
          LET r == Resolve(path, claw_fs)
              existing == IF r.loc \in DOMAIN claw_fs.files THEN claw_fs.files[r.loc] ELSE <<>>
              made == IF Len(r.loc) = 3 THEN [claw_fs.dirs EXCEPT ![r.loc[1]] = "dir"]
                      ELSE claw_fs.dirs
              encodable == \A i \in 1..Len(content) : content[i] # "\\ud800"
              written == IF encodable THEN AppendText(existing, content) ELSE <<>>
          IN  /\ Len(AppendText(existing, content)) <= MaxClawLen
              /\ call' = [op |-> "append_memory_file", content |-> content]
              /\ ret' = [raised |-> r.ok /\ io = "ok" /\ ~encodable]
              /\ claw_out' = [op |-> "append", path |-> path, resolved |-> r,
                              text |-> <<>>, ok |-> r.ok /\ io = "ok" /\ encodable]
              /\ claw_fs' = IF ~r.ok THEN claw_fs
                            ELSE IF io # "ok" THEN [claw_fs EXCEPT !.dirs = made]
                            ELSE [dirs |-> made,
                                  files |-> [l \in DOMAIN claw_fs.files \cup {r.loc} |->
                                                IF l = r.loc THEN written
                                                ELSE claw_fs.files[l]]]
    /\ UNCHANGED <<schedVars, turnVars, rtVars, inVars, amVars, ctxVars>>

----------------------------------------------------------------------------
(* Agent memory: src/memory/service.py *)

\* A title and a file name are sequences of code points. The titles "A b",
\* "a/b" and "c".
Titles == { <<65, 32, 98>>, <<97, 47, 98>>, <<99>> }

SkillTexts == { <<"# Skill", "\n", "one">>, <<"# Skill", "\n", "two">> }

\* title.lower().replace(" ", "_").replace("/", "_")
Slug(title) ==
    [i \in 1..Len(title) |->
        IF title[i] \in {32, 47} THEN 95
        ELSE IF title[i] \in 65..90 THEN title[i] + 32 ELSE title[i]]

\* str(n)
RECURSIVE DecimalStr(_)
DecimalStr(n) == IF n < 10 THEN <<48 + n>> ELSE DecimalStr(n \div 10) \o <<48 + (n % 10)>>

\* s.zfill(3): zeros in front up to three characters, a longer s as it is.
RECURSIVE ZFill3(_)
ZFill3(s) == IF Len(s) >= 3 THEN s ELSE ZFill3(<<48>> \o s)

\* f"{index}_{slug}.md" with index = str(len(existing) + 1).zfill(3)
SkillFileName(existing, title) ==
    ZFill3(DecimalStr(existing + 1)) \o <<95>> \o Slug(title) \o <<46, 109, 100>>

\* path.write_text(content) in a directory, a sequence of files in the order
\* of their creation: a file of that name is replaced, else one is created.
WriteFile(files, name, content) ==
    IF \E i \in 1..Len(files) : files[i].name = name
    THEN [i \in 1..Len(files) |->
             IF files[i].name = name THEN [name |-> name, content |-> content] ELSE files[i]]
    ELSE Append(files, [name |-> name, content |-> content])

\* The order sorted() puts two file names in: by code point, a prefix first.
RECURSIVE SortsBefore(_, _)
SortsBefore(a, b) ==
    IF a = <<>> THEN b # <<>>
    ELSE IF b = <<>> THEN FALSE
    ELSE IF Head(a) # Head(b) THEN Head(a) < Head(b)
    ELSE SortsBefore(Tail(a), Tail(b))

\* sorted(dir.glob("*.md")): the files of a directory by name.
SortedFiles(files) ==
    LET rank(i) == 1 + Cardinality({j \in 1..Len(files) :
                                       SortsBefore(files[j].name, files[i].name)})
    IN  [r \in 1..Len(files) |-> files[CHOOSE i \in 1..Len(files) : rank(i) = r]]

\* path.read_text(encoding="utf-8") of what write_text stored: the text mode
\* turns "\r\n" and a lone "\r" into "\n".
RECURSIVE ReadText(_)
ReadText(stored) ==
    IF stored = <<>> THEN <<>>
    ELSE IF Head(stored) = "\r"
    THEN <<"\n">> \o ReadText(IF Len(stored) > 1 /\ stored[2] = "\n"
                               THEN SubSeq(stored, 3, Len(stored)) ELSE Tail(stored))
    ELSE <<Head(stored)>> \o ReadText(Tail(stored))

\* get_skills / get_failures: "" without the directory, else the files in the
\* order of their names, joined by "\n\n---\n\n".
GetSkills(dir) ==
    LET fs == SortedFiles(dir.files)
        RECURSIVE Join(_)
        Join(i) == IF i > Len(fs) THEN <<>>
                   ELSE (IF i > 1 THEN <<"\n", "\n", "---", "\n", "\n">> ELSE <<>>)
                        \o ReadText(fs[i].content) \o Join(i + 1)
    IN  IF dir.exists THEN Join(1) ELSE <<>>

\* A caller of save_skill / save_failure that is not inside a call.
IdleSaver == [pc |-> "idle", kind |-> "skills", name |-> <<>>, content |-> <<>>]

\* What a caller saves next. One caller alone saves skills, after the first
\* one the same record under the same title again; two callers save skills
\* and failures.
SaveInputs(p) ==
    IF DOMAIN svr = {p}
    THEN { [kind |-> "skills", title |-> t, content |-> c] :
              t \in IF am.skills.files = <<>> THEN Titles
                    ELSE {x \in Titles : SkillFileName(0, x) = am.skills.files[1].name},
              c \in IF am.skills.files = <<>> THEN SkillTexts
                    ELSE {am.skills.files[1].content} }
    ELSE { [kind |-> k, title |-> t, content |-> c] :
              k \in {"skills", "failures"}, t \in Titles, c \in SkillTexts }

\* The files a directory may hold in the model.
RoomInDir(files) ==
    Len(files) < (IF Cardinality(DOMAIN svr) = 1 THEN MaxSkills ELSE MaxRaceSkills)

\* save_skill / save_failure up to the file name: mkdir, glob("*.md"), index, slug.
SkillCount(p) ==
    /\ svr[p].pc = "idle"
    /\ \E in \in SaveInputs(p) :
          /\ RoomInDir(am[in.kind].files)
          /\ svr' = [svr EXCEPT ![p] =
                        [pc |-> "counted", kind |-> in.kind,
                         name |-> SkillFileName(Len(am[in.kind].files), in.title),
                         content |-> in.content]]
          /\ am' = [am EXCEPT ![in.kind].exists = TRUE]
    /\ UNCHANGED am_out
    /\ UNCHANGED <<schedVars, turnVars, rtVars, inVars, clawVars, ctxVars, ioVars>>

\* save_skill / save_failure: path.write_text(content, encoding="utf-8")
SkillWrite(p) ==
    /\ svr[p].pc = "counted"
    /\ am' = [am EXCEPT ![svr[p].kind].files = WriteFile(@, svr[p].name, svr[p].content)]
    /\ svr' = [svr EXCEPT ![p] = IdleSaver]
    /\ UNCHANGED am_out
    /\ UNCHANGED <<schedVars, turnVars, rtVars, inVars, clawVars, ctxVars, ioVars>>

\* The task ids and agent types of working memory, and its contents: a
\* word, nothing, and lines that end in "\r\n".
WorkingKeys == { <<t, a>> : t \in {"session", "other"}, a \in {"gmail", "calendar"} }
WorkingTexts == { <<"a">>, <<>>, <<"b", "\r", "\n", "c">> }

\* get_working_memory(task_id, agent_type) on the working files w.
GetWorkingMemory(w, key) == IF key \in DOMAIN w THEN ReadText(w[key]) ELSE <<>>

\* update_working_memory(task_id, agent_type, content): mkdir, write_text.
WorkingUpdate ==
    /\ \E key \in WorkingKeys, c \in WorkingTexts :
          /\ am' = [am EXCEPT !.working =
                       [k \in DOMAIN am.working \cup {key} |->
                           IF k = key THEN c ELSE am.working[k]]]
          /\ am_out' = [op |-> "update", key |-> key, text |-> c]
    /\ UNCHANGED svr
    /\ UNCHANGED <<schedVars, turnVars, rtVars, inVars, clawVars, ctxVars, ioVars>>

\* get_working_memory(task_id, agent_type)
WorkingGet ==
    /\ \E key \in WorkingKeys :
          am_out' = [op |-> "get", key |-> key, text |-> GetWorkingMemory(am.working, key)]
    /\ UNCHANGED <<am, svr>>
    /\ UNCHANGED <<schedVars, turnVars, rtVars, inVars, clawVars, ctxVars, ioVars>>

\* clear_working_memory(task_id): unlink every *.md of the task's directory.
WorkingClear ==
    /\ \E key \in WorkingKeys :
          /\ am' = [am EXCEPT !.working =
                       [k \in {x \in DOMAIN am.working : x[1] # key[1]} |-> am.working[k]]]
          /\ am_out' = [op |-> "clear", key |-> <<key[1]>>, text |-> <<>>]
    /\ UNCHANGED svr
    /\ UNCHANGED <<schedVars, turnVars, rtVars, inVars, clawVars, ctxVars, ioVars>>

\* get_identity(agent_type)
GetIdentity(store) == IF store.identity.exists THEN ReadText(store.identity.text) ELSE <<>>

\* The headings and the placeholders of load_agent_memory, in its order.
SectionHeads ==
    << "## IDENTITY & FACTS", "## SKILLS LEARNED FROM PAST TASKS",
       "## KNOWN FAILURE PATTERNS TO AVOID", "## WHAT YOU'VE DONE SO FAR THIS TASK" >>

Placeholders ==
    << "No identity file found.", "No skills stored yet.", "No failures recorded yet.",
       "Nothing yet - this is the start of the task." >>

\* A block that shows every slice as it is read, empty or not.
LoadAgentMemoryAsRead(store, key) ==
    LET slices == << GetIdentity(store), GetSkills(store.skills), GetSkills(store.failures),
                     GetWorkingMemory(store.working, key) >>
        RECURSIVE Sections(_)
        Sections(i) == IF i > 4 THEN <<>>
                       ELSE <<"\n", SectionHeads[i], "\n">> \o slices[i] \o <<"\n">>
                            \o Sections(i + 1)
    IN  Sections(1)

\* load_agent_memory(service, agent_type, task_id): the f-string with
\* {identity or "..."}, {skills or "..."}, {failures or "..."}, {working or "..."}.
LoadAgentMemory(store, key) ==
    LET slices == << GetIdentity(store), GetSkills(store.skills), GetSkills(store.failures),
                     GetWorkingMemory(store.working, key) >>
        RECURSIVE Sections(_)
        Sections(i) == IF i > 4 THEN <<>>
                       ELSE <<"\n", SectionHeads[i], "\n">>
                            \o (IF slices[i] # <<>> THEN slices[i] ELSE <<Placeholders[i]>>)
                            \o <<"\n">> \o Sections(i + 1)
    IN  Sections(1)

\* load_agent_memory for the agent and the task of the capabilities.
AmLoad ==
    /\ am_out' = [op |-> "load", key |-> <<"session", "gmail">>,
                  text |-> LoadAgentMemory(am, <<"session", "gmail">>)]
    /\ UNCHANGED <<am, svr>>
    /\ UNCHANGED <<schedVars, turnVars, rtVars, inVars, clawVars, ctxVars, ioVars>>

\* The fields of an adapter's result save_agent_memory looks at. skills_learned
\* and failures: absent, a list of one record, or malformed (None, or a list
\* of strings); working_memory: absent, a text, or malformed (a number).
\* title is the title of the records, text the working_memory text.
AgentResults ==
    { [skills |-> s, failures |-> f, working |-> w, title |-> t, text |-> x] :
         s \in {"absent", "list", "none", "strs"}, f \in {"absent", "list"},
         w \in {"absent", "text", "number"}, t \in Titles, x \in WorkingTexts }

\* save_agent_memory(service, agent_type, task_id, result) on the store: the
\* loop over skills_learned, the loop over failures, then working_memory.
\* io names the write that raises OSError, if any. Iterating None, .get on
\* a string, write_text of a number and an OSError are caught nowhere: the
\* call raises, with what was written before left in place.
SaveAgentMemory(store, key, result, io) ==
    LET record(dir) == WriteFile(dir.files, SkillFileName(Len(dir.files), result.title),
                                 <<"# Skill", "\n", "one">>)
        \* if result.get("working_memory"): an empty text is skipped
        w_given == result.working = "number"
                      \/ (result.working = "text" /\ result.text # <<>>)
        s_raises == result.skills \in {"none", "strs"}
                       \/ (result.skills = "list" /\ io = "skill_write_raises")
        s1 == IF result.skills = "list" /\ ~s_raises
              THEN [store EXCEPT !.skills = [exists |-> TRUE, files |-> record(store.skills)]]
              ELSE store
        f_raises == result.failures = "list" /\ io = "failure_write_raises"
        s2 == IF result.failures = "list" /\ ~f_raises
              THEN [s1 EXCEPT !.failures = [exists |-> TRUE, files |-> record(s1.failures)]]
              ELSE s1
        w_raises == w_given /\ (result.working = "number" \/ io = "working_write_raises")
        s3 == IF w_given /\ ~w_raises
              THEN [s2 EXCEPT !.working = [k \in DOMAIN s2.working \cup {key} |->
                                             IF k = key THEN result.text ELSE s2.working[k]]]
              ELSE s2
    IN  IF s_raises THEN [raised |-> TRUE, store |-> store]
        ELSE IF f_raises THEN [raised |-> TRUE, store |-> s1]
        ELSE IF w_raises THEN [raised |-> TRUE, store |-> s2]
        ELSE [raised |-> FALSE, store |-> s3]

\* save_agent_memory(service, "gmail", "session", result) called with the
\* result of an adapter. given: the numbers of skill and failure records and
\* the working_memory text of a result the call returned for.
AmSave ==
    /\ \E result \in AgentResults,
          io \in {"ok", "skill_write_raises", "failure_write_raises", "working_write_raises"} :
          LET r == SaveAgentMemory(am, <<"session", "gmail">>, result, io)
          IN  /\ Len(r.store.skills.files) <= MaxRaceSkills
              /\ Len(r.store.failures.files) <= MaxRaceSkills
              /\ am' = r.store
              /\ am_out' = [op |-> IF r.raised THEN "save_raised" ELSE "save",
                            key |-> <<"session", "gmail">>, text |-> <<>>,
                            given |-> IF r.raised THEN [skills |-> 0, failures |-> 0,
                                                        working |-> <<>>]
                                      ELSE [skills |-> IF result.skills = "list" THEN 1 ELSE 0,
                                            failures |-> IF result.failures = "list" THEN 1 ELSE 0,
                                            working |-> IF result.working = "text"
                                                        THEN result.text ELSE <<>>]]
    /\ UNCHANGED svr
    /\ UNCHANGED <<schedVars, turnVars, rtVars, inVars, clawVars, ctxVars, ioVars>>

\* The gmail / calendar capability: create_gmail_agent(task_id=...,
\* memory_service=...), agent.invoke, save_agent_memory(...), then return
\* _extract_last_ai_text(...). The factories take no parameters, so the first
\* line raises TypeError: the adapter is not run, nothing is saved and no
\* reply text is returned. adapter is what creating and invoking the adapter
\* would do by themselves; adapter_calls and saves count the calls of
\* agent.invoke and of save_agent_memory the capability has made.
Capability ==
    /\ \E c \in {"gmail", "calendar"}, adapter \in {"ok", "create_raises", "invoke_raises"} :
          am_out' = [op |-> "capability_raised", key |-> <<"session", c>>, text |-> <<>>,
                     adapter |-> adapter, adapter_calls |-> 0, saves |-> 0]
    /\ UNCHANGED <<am, svr>>
    /\ UNCHANGED <<schedVars, turnVars, rtVars, inVars, clawVars, ctxVars, ioVars>>

----------------------------------------------------------------------------
(* The context message of a turn: src/graph/orchestrator.py,
   src/memory/claw_store.py *)

\* The triggers whose turns are followed, and a trigger between turns.
CtxTriggers == {"chat", "push"}

IdleCtx == [pc |-> "idle", msg |-> <<>>, loc |-> <<>>, existing |-> <<>>, content |-> <<>>]

\* s in text
Contains(text, s) ==
    \E i \in 1..(Len(text) - Len(s) + 1) : SubSeq(text, i, i + Len(s) - 1) = s

\* get_today_yesterday_paths() on UTC day d
TodayPath(d) == <<"memory", "/", DateFile(d)>>
YesterdayPath(d) == <<"memory", "/", DateFile(d - 1)>>

\* load_memory_for_context(): MEMORY.md read at root / "MEMORY.md", the two
\* daily documents through read_memory_file, each stripped; "(none)" and
\* "(nothing recorded yet)" where there is nothing.
LoadMemoryForContext(fs, d) ==
    LET long_term == IF <<"MEMORY.md">> \in DOMAIN fs.files
                     THEN Strip(fs.files[<<"MEMORY.md">>]) ELSE <<>>
        today_content == Strip(ReadMemoryFile(TodayPath(d), fs))
        yesterday_content == Strip(ReadMemoryFile(YesterdayPath(d), fs))
        t == IF today_content # <<>>
             THEN << <<"### Today (", DateLabel(d), ")", "\n">> \o today_content >> ELSE <<>>
        y == IF yesterday_content # <<>>
             THEN << <<"### Yesterday (", DateLabel(d - 1), ")", "\n">> \o yesterday_content >>
             ELSE <<>>
        recent == t \o y
        joined == IF Len(recent) = 2 THEN recent[1] \o <<"\n", "\n">> \o recent[2]
                  ELSE IF Len(recent) = 1 THEN recent[1]
                  ELSE <<"(nothing recorded yet)">>
    IN  <<"## Long-term memory", "\n">> \o (IF long_term # <<>> THEN long_term ELSE <<"(none)">>)
           \o <<"\n", "\n">> \o <<"## Recent (today / yesterday)", "\n">> \o joined

\* _global_context_message() on the workspace fs on UTC day d: the agent
\* context and the workspace memory, joined by a blank line.
GlobalContextText(fs, d) == ContextText \o <<"\n", "\n">> \o LoadMemoryForContext(fs, d)

\* What memory_append is called with in a turn: the paths its description
\* names, for the long-term document and for today's log, and a content
\* that tells the trigger.
CtxPaths(d) == { <<"MEMORY.md">>, TodayPath(d) }

CtxContent(a) == IF a = "chat" THEN <<"x">> ELSE <<" ", "y", "\n">>

\* inject_global_context at the start of trigger a's turn.
CtxTurnStart(a) ==
    /\ ctx[a].pc = "idle"
    /\ ctx' = [ctx EXCEPT ![a] = [IdleCtx EXCEPT !.pc = "running",
                                               !.msg = GlobalContextText(claw_fs, utc_day)]]
    /\ UNCHANGED <<utc_day, appended, claw_fs>>

\* append_memory_file up to the read of the existing text: a path that does
\* not resolve is refused, else the parent directory is made and the text read.
CtxAppendRead(a) ==
    /\ ctx[a].pc = "running"
    /\ Len(appended) + Cardinality({b \in CtxTriggers : ctx[b].pc = "appending"}) < MaxAppends
    /\ \E path \in CtxPaths(utc_day) :
          LET r == Resolve(path, claw_fs)
              content == CtxContent(a)
              made == IF Len(r.loc) = 3 THEN [claw_fs.dirs EXCEPT ![r.loc[1]] = "dir"]
                      ELSE claw_fs.dirs
          IN  IF ~r.ok THEN UNCHANGED <<ctx, claw_fs>>
              ELSE /\ claw_fs' = [claw_fs EXCEPT !.dirs = made]
                   /\ ctx' = [ctx EXCEPT ![a] =
                                [@ EXCEPT !.pc = "appending", !.loc = r.loc, !.content = content,
                                          !.existing = IF r.loc \in DOMAIN claw_fs.files
                                                       THEN claw_fs.files[r.loc] ELSE <<>>]]
    /\ UNCHANGED <<utc_day, appended>>

\* append_memory_file from the write on: the file is rewritten with the text
\* read before and the content appended; an OSError is reported, not raised.
CtxAppendWrite(a) ==
    /\ ctx[a].pc = "appending"
    /\ Len(AppendText(ctx[a].existing, ctx[a].content)) <= MaxClawLen
    /\ \E io \in {"ok", "write_raises"} :
          /\ claw_fs' = IF io # "ok" THEN claw_fs
                        ELSE [claw_fs EXCEPT !.files =
                                 [l \in DOMAIN claw_fs.files \cup {ctx[a].loc} |->
                                     IF l = ctx[a].loc
                                     THEN AppendText(ctx[a].existing, ctx[a].content)
                                     ELSE claw_fs.files[l]]]
          /\ appended' = IF io # "ok" THEN appended
                         ELSE Append(appended, [loc |-> ctx[a].loc, content |-> ctx[a].content])
    /\ ctx' = [ctx EXCEPT ![a] = [@ EXCEPT !.pc = "running", !.loc = <<>>,
                                           !.existing = <<>>, !.content = <<>>]]
    /\ UNCHANGED utc_day

\* The turn returns.
CtxTurnEnd(a) ==
    /\ ctx[a].pc = "running"
    /\ ctx' = [ctx EXCEPT ![a] = IdleCtx]
    /\ UNCHANGED <<utc_day, appended, claw_fs>>

\* The UTC date changes.
CtxMidnight ==
    /\ utc_day < MaxCtxDay
    /\ utc_day' = utc_day + 1
    /\ UNCHANGED <<ctx, appended, claw_fs>>

CtxStep ==
    \/ \E a \in CtxTriggers : CtxTurnStart(a)
    \/ \E a \in CtxTriggers : CtxAppendRead(a)
    \/ \E a \in CtxTriggers : CtxAppendWrite(a)
    \/ \E a \in CtxTriggers : CtxTurnEnd(a)
    \/ CtxMidnight

\* The capabilities of the delegating loop and the instruction texts it
\* passes: its own wording, or the user's message repeated.
Capabilities == {"websearch", "gmail", "calendar", "direct"}

Instructions == { <<"list my last 5 emails">>, UserText("chat") }

\* _agent_messages(query) on the workspace fs on UTC day d
AgentMessages(query, fs, d) ==
    << SystemMessage(Str(GlobalContextText(fs, d))), HumanMessage(Str(query)) >>

\* create_gmail_agent and create_calendar_agent take no parameters
\* (agents/gmail/agent.py 26, agents/calendar/agent.py 36); gmail and calendar
\* call them with task_id= and memory_service=, which raises TypeError.
FactoryRaises(c) == c \in {"gmail", "calendar"}

\* websearch / gmail / calendar / direct, called by the delegating loop in
\* trigger a's turn: the adapter is created, agent.invoke is given
\* {"messages": _agent_messages(instruction)}, and the text of the adapter's
\* reply is returned. Where creating the adapter raises, no conversation is
\* built and none reaches an adapter.
CtxInvoke(a) ==
    /\ ctx[a].pc = "running"
    /\ \E c \in Capabilities, q \in Instructions :
          /\ call' = [op |-> c, trigger |-> a, instruction |-> q,
                      messages |-> IF FactoryRaises(c) THEN <<>>
                                   ELSE AgentMessages(q, claw_fs, utc_day)]
          /\ ret' = [op |-> c, raised |-> FactoryRaises(c),
                     text |-> IF FactoryRaises(c) THEN <<>> ELSE ToolResultText]
    /\ UNCHANGED <<ctxVars, clawVars>>
    /\ UNCHANGED <<schedVars, turnVars, rtVars, inVars, amVars>>

NextContext ==
    /\ CtxStep
    /\ UNCHANGED <<schedVars, turnVars, rtVars, inVars, amVars, ioVars, claw_out>>

----------------------------------------------------------------------------
(* The adapters: src/agents/websearch/agent.py, src/graph/orchestrator.py *)

\* The conversations an adapter's invoke is given: up to MaxConv messages,
\* among them user messages with a query, with blank text and with a list of
\* blocks as content.
ConvMessages ==
    { SystemMessage(Str(ContextText)), HumanMessage(Str(<<"weather in Providence today">>)),
      HumanMessage(Str(<<" ">>)), HumanMessage(Blocks(<<TextBlock(<<"news">>)>>)),
      AIMessage(Str(AnswerText)) }

Conversations == UNION { [1..n -> ConvMessages] : n \in 0..MaxConv }

\* The replies of the web-search adapter: the grounded answer, or one of its
\* two failure texts when search_grounded_response raises.
WebSearchReply(outcome) ==
    IF outcome = "ok" THEN <<"grounded answer">>
    ELSE IF outcome = "key_rejected"
    THEN <<"Web search failed: the Gemini API key was rejected.">>
    ELSE <<"Web search failed: ", "error", ". Check that GEMINI_API_KEY (or GOOGLE_API_KEY) is set and valid.">>

\* _WebSearchAgent.invoke: the last HumanMessage is looked up; without one,
\* or with one whose content.strip() is empty, the messages are returned as
\* they are; else one AIMessage with the reply is appended. content.strip()
\* of a content that is a list raises AttributeError.
WebSearchInvoke(messages, outcome) ==
    LET users == {i \in 1..Len(messages) : messages[i].role = "human"}
        last == CHOOSE i \in users : \A j \in users : j <= i
    IN  IF users = {} THEN [raised |-> FALSE, messages |-> messages]
        ELSE IF messages[last].content.k # "str" THEN [raised |-> TRUE, messages |-> <<>>]
        ELSE IF Strip(messages[last].content.lines) = <<>>
        THEN [raised |-> FALSE, messages |-> messages]
        ELSE [raised |-> FALSE,
              messages |-> messages \o <<AIMessage(Str(WebSearchReply(outcome)))>>]

\* create_websearch_agent().invoke({"messages": messages})
WebSearchCall ==
    /\ \E messages \in Conversations, outcome \in {"ok", "key_rejected", "api_raises"} :
          /\ call' = [op |-> "websearch", messages |-> messages]
          /\ ret' = WebSearchInvoke(messages, outcome)
    /\ UNCHANGED <<schedVars, turnVars, rtVars, inVars, clawVars, amVars, ctxVars>>

\* invoke of an adapter made by create_react_agent (gmail, calendar, direct
\* and the delegating loop itself): the input followed by the rounds of tool
\* calls and the final answer.
ReactCall ==
    /\ \E messages \in Conversations, calls \in 0..MaxToolCalls :
          /\ call' = [op |-> "react", messages |-> messages]
          /\ ret' = [raised |-> FALSE,
                     messages |-> ReactOrchestratorNode(messages, calls, Str(AnswerText))]
    /\ UNCHANGED <<schedVars, turnVars, rtVars, inVars, clawVars, amVars, ctxVars>>

NextAdapters == WebSearchCall \/ ReactCall

----------------------------------------------------------------------------
(* The domain operations of the adapters: src/agents/gmail/tools.py,
   src/agents/calendar/tools.py *)

GmailTools == {"gmail_list_inbox", "gmail_search", "gmail_get_email", "gmail_trash_email"}

CalendarTools ==
    {"calendar_list_events", "calendar_get_event", "calendar_create_event",
     "calendar_delete_event"}

\* What a call of the external API does: it answers (with items, or with an
\* empty list where it lists), or raises HttpError with status 404, HttpError
\* with another status, or another exception.
ApiOutcomes == {"ok", "empty", "not_found", "http_error", "error"}

\* The identifier a tool is given: an id, an id with blanks around it, or an
\* e-mail address.
IdKinds == {"id", "padded_id", "address"}

Returned(text) == [raised |-> FALSE, text |-> text]
Raised == [raised |-> TRUE, text |-> <<>>]

MsgNotFound == <<"That message was not found.">>

\* gmail_list_inbox / gmail_search: list_messages (no try around it), then
\* get_message for each listed message, where a 404 is skipped and any other
\* HttpError raised again.
GmailList(api, get_api) ==
    IF api \in {"not_found", "http_error", "error"} THEN Raised
    ELSE IF api = "empty" THEN Returned(<<"No messages found">>)
    ELSE IF get_api = "not_found" THEN Returned(<<"No messages found", " (or they were deleted).">>)
    ELSE IF get_api \in {"http_error", "error"} THEN Raised
    ELSE Returned(<<"id=", "18b2f3a1c4d5e6f7">>)

\* gmail_get_email: the id is stripped and refused when it holds "@" or " ";
\* HttpError of get_message is returned as text, any other exception raised.
GmailGetEmail(id, api) ==
    IF id = "address" THEN Returned(<<"Invalid message_id: ", "a@b.c">>)
    ELSE IF api = "not_found" THEN Returned(MsgNotFound)
    ELSE IF api = "http_error" THEN Returned(<<"Gmail API error (", "500", ")">>)
    ELSE IF api = "error" THEN Raised
    ELSE Returned(<<"From: ", "?">>)

\* gmail_trash_email: as gmail_get_email, and any other exception is returned
\* as text too.
GmailTrashEmail(id, api) ==
    IF id = "address" THEN Returned(<<"Invalid message_id: ", "a@b.c">>)
    ELSE IF api = "not_found" THEN Returned(MsgNotFound)
    ELSE IF api = "http_error" THEN Returned(<<"Gmail API error (", "500", ")">>)
    ELSE IF api = "error" THEN Returned(<<"Failed to trash email: ", "error">>)
    ELSE Returned(<<"Email ", "18b2f3a1c4d5e6f7", " moved to Trash.">>)

\* The calendar tools call the client with no try around the call: whatever
\* the API raises leaves the tool.
CalendarListEvents(api) ==
    IF api \in {"not_found", "http_error", "error"} THEN Raised
    ELSE IF api = "empty" THEN Returned(<<"No events found in the given range.">>)
    ELSE Returned(<<"id=", "abc123">>)

CalendarGetEvent(id, api) ==
    IF api \in {"not_found", "http_error", "error"} THEN Raised
    ELSE Returned(<<"Summary: ", "(No title)">>)

CalendarCreateEvent(api) ==
    IF api \in {"not_found", "http_error", "error"} THEN Raised
    ELSE Returned(<<"Created event: ", "(No title)">>)

CalendarDeleteEvent(id, api) ==
    IF api \in {"not_found", "http_error", "error"} THEN Raised
    ELSE Returned(<<"Deleted event id=", "abc123", ".">>)

DomainTool(tool, id, api, get_api) ==
    CASE tool \in {"gmail_list_inbox", "gmail_search"} -> GmailList(api, get_api)
      [] tool = "gmail_get_email" -> GmailGetEmail(id, api)
      [] tool = "gmail_trash_email" -> GmailTrashEmail(id, api)
      [] tool = "calendar_list_events" -> CalendarListEvents(api)
      [] tool = "calendar_get_event" -> CalendarGetEvent(id, api)
      [] tool = "calendar_create_event" -> CalendarCreateEvent(api)
      [] OTHER -> CalendarDeleteEvent(id, api)

\* Whether the call reaches the API and the API answers with not-found for
\* the message or event the tool asks for.
NotFoundMet(tool, id, api, get_api) ==
    IF tool \in {"gmail_list_inbox", "gmail_search"}
    THEN api = "ok" /\ get_api = "not_found"
    ELSE IF tool \in {"gmail_get_email", "gmail_trash_email"}
    THEN id # "address" /\ api = "not_found"
    ELSE api = "not_found"

\* One tool call of an adapter's agent.
ToolCall ==
    /\ \E tool \in GmailTools \cup CalendarTools, id \in IdKinds,
          api \in ApiOutcomes, get_api \in ApiOutcomes \ {"empty"} :
          /\ call' = [op |-> tool, id |-> id, api |-> api, get_api |-> get_api]
          /\ ret' = DomainTool(tool, id, api, get_api)
    /\ UNCHANGED <<schedVars, turnVars, rtVars, inVars, clawVars, amVars, ctxVars>>

----------------------------------------------------------------------------
(* The inbound endpoints and the remembered chat: src/webhook.py, src/cli.py *)

ChatIds == {1, 2}

\* The bodies POSTed to /webhook/gmail: not JSON; JSON that is no object; an
\* object without "message"; with a "message" that is no object; with data
\* that does not decode; with data that is a number; with data that decodes to
\* a JSON list or number; to an empty object; to a notification.
GmailBodies ==
    {"invalid_json", "json_not_object", "no_message", "message_not_object",
     "data_undecodable", "data_not_str", "data_json_list", "data_empty_object", "valid"}

\* _decode_gmail_notification(raw_data) if raw_data else None, for the
\* bodies that reach it: "none", "falsy" ({}), "not_dict" or "dict".
DecodeGmailNotification(body) ==
    CASE body = "valid" -> "dict"
      [] body = "data_json_list" -> "not_dict"
      [] body = "data_empty_object" -> "falsy"
      [] OTHER -> "none"

\* gmail_webhook: the status of the response and whether on_gmail_push was
\* added as a background task. body.get, message.get, payload.get and
\* len(raw_data) on a value of another type raise, which the server answers
\* with status 500.
GmailWebhookResponse(body) ==
    IF body = "invalid_json" THEN [status |-> 400, task |-> FALSE]
    ELSE IF body \in {"json_not_object", "message_not_object"} THEN [status |-> 500, task |-> FALSE]
    ELSE IF DecodeGmailNotification(body) = "not_dict" THEN [status |-> 500, task |-> FALSE]
    ELSE IF body = "data_not_str" THEN [status |-> 500, task |-> FALSE]
    ELSE [status |-> 200, task |-> DecodeGmailNotification(body) = "dict"]

\* The bodies POSTed to /webhook/telegram: not JSON, JSON that is no object
\* (a list), or an update: kind "no_message", "no_text" or "text".
Update(kind, chat_id) == [kind |-> kind, chat_id |-> chat_id]

TelegramBodies ==
    { Update("invalid_json", NoChat), Update("json_not_object", NoChat),
      Update("no_message", NoChat) }
       \cup { Update(k, c) : k \in {"no_text", "text"}, c \in ChatIds }

\* telegram_webhook
TelegramWebhookResponse(body) ==
    IF body.kind = "invalid_json" THEN [status |-> 400, task |-> FALSE]
    ELSE [status |-> 200, task |-> TRUE]

\* _get_gmail_push_chat_id(): TELEGRAM_CHAT_ID when it is a number, else the
\* content of telegram_chat_id.txt, else None. env is "unset" or
\* "not_a_number".
GetGmailPushChatId(env, file) == file

\* POST /webhook/gmail
GmailWebhook ==
    /\ \E body \in GmailBodies :
          LET r == GmailWebhookResponse(body)
          IN  /\ Len(background) < MaxBackground
              /\ call' = [op |-> "gmail_webhook", body |-> Update(body, NoChat)]
              /\ ret' = [status |-> r.status, sent_to |-> NoChat]
              /\ background' = IF r.task THEN Append(background, Update("push", NoChat))
                               ELSE background
    /\ UNCHANGED <<chat_id_file, last_chat>>

\* POST /webhook/telegram
TelegramWebhook ==
    /\ \E body \in TelegramBodies :
          LET r == TelegramWebhookResponse(body)
          IN  /\ Len(background) < MaxBackground
              /\ call' = [op |-> "telegram_webhook", body |-> body]
              /\ ret' = [status |-> r.status, sent_to |-> NoChat]
              /\ background' = IF r.task THEN Append(background, body) ELSE background
    /\ UNCHANGED <<chat_id_file, last_chat>>

\* A background task runs, after its response was sent. on_gmail_push: the
\* dispatcher run, whose summary, when there is one, goes to the chat
\* _get_gmail_push_chat_id() names. _on_telegram_update: an update that is no
\* object raises; one without text or chat is dropped; else the chat id is
\* written to telegram_chat_id.txt (an OSError ends the task) and the message
\* is processed, the reply going to its chat.
BackgroundRun ==
    /\ \E i \in 1..Len(background), answer \in BOOLEAN, io \in {"ok", "write_raises"},
          env \in {"unset", "not_a_number"} :
          LET task == background[i]
          IN  /\ background' = RemoveAt(background, i)
              /\ IF task.kind = "push"
                 THEN /\ call' = [op |-> "push_summary", has_text |-> answer]
                      /\ ret' = [status |-> 0,
                                 sent_to |-> IF answer THEN GetGmailPushChatId(env, chat_id_file)
                                             ELSE NoChat]
                      /\ UNCHANGED <<chat_id_file, last_chat>>
                 ELSE IF task.kind # "text" \/ io # "ok"
                 THEN /\ call' = [op |-> "telegram_update", has_text |-> FALSE]
                      /\ ret' = [status |-> 0, sent_to |-> NoChat]
                      /\ UNCHANGED <<chat_id_file, last_chat>>
                 ELSE /\ call' = [op |-> "telegram_update", has_text |-> TRUE]
                      /\ ret' = [status |-> 0, sent_to |-> task.chat_id]
                      /\ chat_id_file' = task.chat_id
                      /\ last_chat' = task.chat_id

\* telegram_poll, handle(update): process_telegram_message(chat id, text) for
\* a message with text; nothing is written to telegram_chat_id.txt.
TelegramPoll ==
    /\ \E c \in ChatIds :
          /\ call' = [op |-> "telegram_poll", has_text |-> TRUE]
          /\ ret' = [status |-> 0, sent_to |-> c]
          /\ last_chat' = c
    /\ UNCHANGED <<chat_id_file, background>>

\* A heartbeat turn that reports something, or a scheduled task that has
\* finished: chat_id = _get_gmail_push_chat_id(); if chat_id: send.
ProactiveNotice ==
    /\ \E kind \in {"heartbeat_report", "scheduled_notice"}, env \in {"unset", "not_a_number"} :
          /\ call' = [op |-> kind, has_text |-> TRUE]
          /\ ret' = [status |-> 0, sent_to |-> GetGmailPushChatId(env, chat_id_file)]
    /\ UNCHANGED <<chat_id_file, background, last_chat>>

NextInbound ==
    /\ GmailWebhook \/ TelegramWebhook \/ BackgroundRun \/ TelegramPoll \/ ProactiveNotice
    /\ UNCHANGED <<schedVars, turnVars, rtVars, clawVars, amVars, ctxVars>>

----------------------------------------------------------------------------
(* The outbound text send: src/webhook.py *)

TELEGRAM_MAX_MESSAGE_LENGTH == 4096

\* How far past the limit the lengths of the texts sent go.
MaxOver == 3

SendChars == <<"a", "b", "c">>

\* A text of n characters; its characters differ along the text, so that a
\* cut at another place gives another text.
TextOf(n, shift) == [i \in 1..n |-> SendChars[((i + shift) % 3) + 1]]

SendLengths ==
    {0, 1} \cup ((TELEGRAM_MAX_MESSAGE_LENGTH - 1)..(TELEGRAM_MAX_MESSAGE_LENGTH + MaxOver))

\* The cut taken at the limit itself, before the dots are added.
TruncateForTelegramAtLimit(text) ==
    IF Len(text) > TELEGRAM_MAX_MESSAGE_LENGTH
    THEN SubSeq(text, 1, TELEGRAM_MAX_MESSAGE_LENGTH) \o <<".", ".", ".">>
    ELSE text

\* if len(text) > TELEGRAM_MAX_MESSAGE_LENGTH:
\*     text = text[: TELEGRAM_MAX_MESSAGE_LENGTH - 3] + "..."
TruncateForTelegram(text) ==
    IF Len(text) > TELEGRAM_MAX_MESSAGE_LENGTH
    THEN SubSeq(text, 1, TELEGRAM_MAX_MESSAGE_LENGTH - 3) \o <<".", ".", ".">>
    ELSE text

\* One call of _send_telegram_text(text, already_formatted_for_telegram):
\* what bot.send_message receives, if it is called at all.
SendText ==
    /\ \E n \in SendLengths, shift \in 0..2, token \in BOOLEAN, formatted \in BOOLEAN,
          api_ok \in BOOLEAN :
          LET text == TextOf(n, shift)
              outcome == SendTelegramText(token, FALSE, api_ok)
          IN  /\ call' = [op |-> "send_text", text |-> text, formatted |-> formatted]
              /\ ret' = IF outcome = "skipped"
                        THEN [op |-> "skipped", raised |-> FALSE]
                        ELSE [op |-> "bot_send",
                              text |-> TruncateForTelegram(text),
                              parse_mode |-> IF formatted THEN "HTML" ELSE "none",
                              raised |-> outcome = "raised"]
    /\ UNCHANGED <<schedVars, turnVars, rtVars, clawVars, amVars, ctxVars, inVars>>

----------------------------------------------------------------------------
(* The web search client: src/agents/websearch/client.py *)

\* Queries are strings of characters here: the client decides on their length
\* and on the phrases they contain.
StrAt(s, i) == SubSeq(s, i, i)

\* str.lower() on one character (the capitals the queries use).
LowerChar(c) ==
    CASE c = "S" -> "s" [] c = "W" -> "w" [] c = "C" -> "c" [] c = "P" -> "p"
      [] c = "R" -> "r" [] OTHER -> c

RECURSIVE StrLower(_)
StrLower(s) ==
    IF Len(s) = 0 THEN "" ELSE LowerChar(StrAt(s, 1)) \o StrLower(SubSeq(s, 2, Len(s)))

RECURSIVE StrLStrip(_)
StrLStrip(s) ==
    IF Len(s) > 0 /\ StrAt(s, 1) \in {" ", "\n"} THEN StrLStrip(SubSeq(s, 2, Len(s))) ELSE s

RECURSIVE StrRStrip(_)
StrRStrip(s) ==
    IF Len(s) > 0 /\ StrAt(s, Len(s)) \in {" ", "\n"}
    THEN StrRStrip(SubSeq(s, 1, Len(s) - 1)) ELSE s

\* str.strip()
StrStrip(s) == StrLStrip(StrRStrip(s))

\* p in t
StrIn(p, t) == \E i \in 1..(Len(t) - Len(p) + 1) : SubSeq(t, i, i + Len(p) - 1) = p

MetaPhrases ==
    {"search the internet", "search the web", "why can't you search",
     "why can you not search", "can you search", "search for me"}

\* len(t) < 20, of the lower-cased and stripped text
ShortQuery(text) == Len(StrStrip(StrLower(text))) < 20

\* any(p in t for p in meta_phrases)
HasMetaPhrase(text) == \E p \in MetaPhrases : StrIn(p, StrStrip(StrLower(text)))

\* " for " in t or " about " in t
HasTopicWord(text) ==
    LET t == StrStrip(StrLower(text)) IN StrIn(" for ", t) \/ StrIn(" about ", t)

\* _looks_like_meta_search_request(text)
LooksLikeMetaSearchRequest(text) ==
    LET t == StrStrip(StrLower(text))
    IN  IF Len(t) = 0 \/ Len(t) < 20 THEN TRUE
        ELSE HasMetaPhrase(text) /\ ~HasTopicWord(text)

SyntheticPrefix ==
    "Search the web for: what this assistant can do and current capabilities of AI assistants with web search. Then answer the user based on the search results. User said: "

\* The contents search_grounded_response hands to generate_content.
SearchContent(query) ==
    LET content == StrStrip(query)
    IN  IF Len(content) = 0 \/ LooksLikeMetaSearchRequest(content)
        THEN SyntheticPrefix \o (IF Len(content) = 0 THEN "search the internet" ELSE content)
        ELSE content

Queries ==
    {"", "  ", "search the web", " Can you search ", "Search the Web for me",
     "weather in Paris", "bitcoin price", "Rome",
     "can you search the web right now please",
     "search the web for cheap flights to Rome",
     "why can't you search about the Paris weather",
     "what is the population of Tokyo this year"}

\* The grounding chunks of the first candidate of a response.
ChunkLists == {<<>>, <<[uri |-> "https://a", title |-> "A"]>>,
               <<[uri |-> "", title |-> "B"], [uri |-> "https://c", title |-> ""]>>}

RECURSIVE WithUri(_)
WithUri(chunks) ==
    IF chunks = <<>> THEN <<>>
    ELSE (IF Head(chunks).uri # "" THEN <<Head(chunks)>> ELSE <<>>) \o WithUri(Tail(chunks))

\* search_grounded_response(query, include_sources): _get_client raises
\* without an API key; else one generate_content call on the contents, whose
\* text is stripped and whose chunks with a uri become the sources.
SearchGroundedResponse ==
    /\ \E query \in Queries, key \in BOOLEAN, include_sources \in BOOLEAN,
          text \in {"", " answer\n"}, chunks \in ChunkLists :
          /\ call' = [op |-> "search", query |-> query, include_sources |-> include_sources]
          /\ ret' = IF ~key THEN [raised |-> TRUE, called |-> FALSE]
                    ELSE [raised |-> FALSE, called |-> TRUE,
                          contents |-> SearchContent(query),
                          text |-> StrStrip(text),
                          sources |-> IF include_sources THEN WithUri(chunks) ELSE <<>>]
    /\ UNCHANGED <<schedVars, turnVars, rtVars, clawVars, amVars, ctxVars, inVars>>

----------------------------------------------------------------------------
(* Assistant messages with block content, where they are used:
   src/orchestrator_runner.py, src/cli.py, src/session.py *)

\* The blocks an assistant message may hold, and the contents made of them.
ContentBlocks == {TextBlock(<<"x">>), TextBlock(<<"y">>), ToolUseBlock}

BlockContents == {Blocks(bs) : bs \in ListsUpTo(ContentBlocks, 2) \ {<<>>}}

\* Results of the dispatcher that end with an assistant message of blocks.
BlockResults ==
    {prefix \o <<AIMessage(c)>> :
        prefix \in {<<>>, <<HumanMessage(Str(<<"hi">>))>>, <<AIMessage(Str(<<"old">>))>>,
                    <<ToolMessage(Str(ToolResultText))>>},
        c \in BlockContents}

\* invoke_orchestrator: last_ai_text, the text the Telegram reply is made of.
ReplyText ==
    \E messages \in BlockResults :
        /\ call' = [op |-> "telegram_reply", messages |-> messages]
        /\ ret' = [text |-> ExtractLastAiText(messages)]

\* _print_last_ai(messages)
PrintReply ==
    \E messages \in BlockResults :
        /\ call' = [op |-> "cli_print", messages |-> messages]
        /\ ret' = [text |-> PrintLastAi(messages).text]

\* save_session(messages): the content of the row of the last message.
SaveReply ==
    \E messages \in BlockResults :
        LET rows == SaveRows(messages)
        IN  /\ call' = [op |-> "save_session", messages |-> messages]
            /\ ret' = [text |-> rows[Len(rows)].content]

NextBlocks ==
    /\ ReplyText \/ PrintReply \/ SaveReply
    /\ UNCHANGED <<schedVars, turnVars, rtVars, clawVars, amVars, ctxVars, inVars>>

----------------------------------------------------------------------------
(* The dispatcher's graph: src/graph/orchestrator.py *)

\* Conversations the dispatcher is invoked with; two of them hold no message
\* of the user.
RouteConversations ==
    { <<>>,
      <<AIMessage(Str(<<"old">>))>>,
      <<HumanMessage(Str(<<"hi">>))>>,
      <<HumanMessage(Str(<<"hi">>)), AIMessage(Str(<<"old">>)), HumanMessage(Str(<<"ask">>))>> }

\* The first reply of the hosted model: its text, and the capability it
\* invokes, if any.
ReplyTexts == {"none", "gmail", "Calendar it is", "I will search"}

ModelReplies == {[text |-> t, tool |-> c] : t \in ReplyTexts, c \in Capabilities \cup {"none"}}

\* build_orchestrator().invoke({"messages": messages, "route": ""}): the graph
\* is inject_context -> react_orchestrator -> END. react_orchestrator_node
\* invokes the agent on the messages, whatever they are; the agent calls the
\* model, runs the capability the reply invokes and calls the model again,
\* until a reply invokes none. No node writes state["route"].
OrchestratorInvoke ==
    /\ \E messages \in RouteConversations, reply \in ModelReplies, api_ok \in BOOLEAN :
          LET calls == IF reply.tool = "none" THEN 0 ELSE 1
          IN  /\ call' = [op |-> "orchestrate", messages |-> messages, route |-> "",
                          reply |-> reply]
              /\ ret' = IF ~api_ok
                        THEN [raised |-> TRUE, model_calls |-> 1, invoked |-> <<>>,
                              route |-> "", messages |-> <<>>]
                        ELSE [raised |-> FALSE, model_calls |-> calls + 1,
                              invoked |-> IF calls = 0 THEN <<>> ELSE <<reply.tool>>,
                              route |-> "",
                              messages |-> ReactOrchestratorNode(InjectGlobalContext(messages),
                                                                 calls, Str(<<reply.text>>))]
    /\ UNCHANGED <<schedVars, turnVars, rtVars, clawVars, amVars, ctxVars, inVars>>

----------------------------------------------------------------------------
(* The gmail and calendar adapters and the agent memory:
   src/agents/gmail/agent.py, src/agents/calendar/agent.py, src/memory/loader.py *)

\* SYSTEM_PROMPT of the gmail adapter, _build_system_prompt() of the calendar one.
AdapterPrompt(c) == SystemMessage(Str(<<c, " assistant prompt">>))

\* make_memory_modifier(agent_type, task_id, service): the hook's modifier
\* applied to the messages of the state gives the input of the model.
MakeMemoryModifier(store, key, messages) ==
    <<SystemMessage(Str(LoadAgentMemory(store, key)))>> \o messages

\* create_gmail_agent() / create_calendar_agent() and agent.invoke on a
\* conversation: create_react_agent(llm, tools=ALL_TOOLS, prompt=...) is given
\* no pre_model_hook, so the model's input is the prompt and the messages.
AdapterInvoke ==
    /\ \E c \in {"gmail", "calendar"}, q \in Instructions :
          LET messages == AgentMessages(q, claw_fs, utc_day)
          IN  /\ call' = [op |-> "adapter_invoke", agent |-> c, messages |-> messages]
              /\ ret' = [raised |-> FALSE, llm_input |-> <<AdapterPrompt(c)>> \o messages]
    /\ UNCHANGED <<schedVars, turnVars, rtVars, clawVars, amVars, ctxVars, inVars>>

----------------------------------------------------------------------------
(* Specifications *)

NoDir == [exists |-> FALSE, files |-> <<>>]

InitAmVars ==
    /\ am = [identity |-> [exists |-> FALSE, text |-> <<>>], skills |-> NoDir,
             failures |-> NoDir, working |-> <<>>]
    /\ svr = [p \in {1} |-> IdleSaver]
    /\ am_out = [op |-> "none", key |-> <<>>, text |-> <<>>]

InitClawVars ==
    /\ claw_fs = [dirs |-> [d \in {"memory"} |-> "absent"], files |-> <<>>]
    /\ claw_out = [op |-> "none", path |-> <<>>, resolved |-> [ok |-> FALSE, loc |-> <<>>],
                   text |-> <<>>, ok |-> FALSE]

InitCtxVars ==
    /\ utc_day = 0
    /\ ctx = [a \in CtxTriggers |-> IdleCtx]
    /\ appended = <<>>

InitIoVars ==
    /\ call = [op |-> "none"]
    /\ ret = [op |-> "none"]

InitInVars ==
    /\ chat_id_file = NoChat
    /\ background = <<>>
    /\ last_chat = NoChat

InitMemVars == InitClawVars /\ InitAmVars /\ InitCtxVars /\ InitIoVars /\ InitInVars

InitSchedVars ==
    /\ now = [day |-> 0, slot |-> 0]
    /\ last_run = [t \in TaskIds |-> NoDate]
    /\ reports = [d \in Days |-> <<>>]
    /\ runs = <<>>
    /\ kicked = [t \in TaskIds |-> NoDate]
    /\ lastFinish = [task_id |-> "", how |-> "none"]

InitTurnVars ==
    /\ pc = [a \in Triggers |-> IF a = "hb" THEN "sleep" ELSE "idle"]
    /\ mem = [a \in Triggers |-> <<>>]
    /\ cli_mode = "once"
    /\ turnStart = [a \in Triggers |-> <<>>]
    /\ saved = [a \in Triggers |-> FALSE]
    /\ lastSaver = "none"
    /\ delivered = [a \in Triggers |-> NotDelivered]
    /\ outbound = [a \in Triggers |-> <<>>]

InitRtVars ==
    /\ rt_pc = "off"
    /\ rt_in = <<>>
    /\ rt_file = File("absent", <<>>)
    /\ rt_out = [raised |-> FALSE, msgs |-> <<>>]

\* save_session and load_session applied to a message list or to a file found.
InitStore ==
    /\ tz_ok = TRUE
    /\ schedule = <<>>
    /\ session_file = File("absent", <<>>)
    /\ chat_id_known = FALSE
    /\ InitSchedVars /\ InitTurnVars /\ InitMemVars
    /\ rt_pc = "start"
    /\ rt_out = [raised |-> FALSE, msgs |-> <<>>]
    /\ \/ rt_in \in ListsUpTo(StoreMessages, MaxMsgs) /\ rt_file = File("absent", <<>>)
       \/ rt_in = <<>> /\ rt_file \in StoredFiles

NextStore == StoreSave \/ StoreLoad \/ StoreResave

SpecStore == InitStore /\ [][NextStore]_vars

\* The session file an earlier chat turn has left.
PriorSession ==
    SaveSession(<<HumanMessage(Str(UserText("chat"))), AIMessage(Str(AnswerText))>>)

\* The server with its heartbeat loop and the scheduled tasks it kicks off.
InitSched ==
    /\ tz_ok \in BOOLEAN
    /\ schedule \in Schedules
    /\ session_file = PriorSession
    /\ chat_id_known \in BOOLEAN
    /\ InitSchedVars /\ InitTurnVars /\ InitRtVars /\ InitMemVars

HeartbeatLoop == HbSleep \/ HbLoad \/ HbInvoke \/ HbSave \/ HbAfterTurn

ScheduledRuns == \E i \in 1..MaxRuns : RunStart(i) \/ RunThread(i) \/ RunFinish(i)

NextSched == HeartbeatLoop \/ ScheduledRuns

SpecSched == InitSched /\ [][NextSched]_vars

\* The session files the chat handler and the CLI may find.
InitialSessions ==
    { File("absent", <<>>), File("malformed", <<>>), File("undecodable", <<>>) }

\* The chat handler (webhook thread or telegram_poll) and the CLI commands,
\* which share the session file.
Init ==
    /\ tz_ok = TRUE
    /\ schedule = <<>>
    /\ session_file \in InitialSessions
    /\ chat_id_known = FALSE
    /\ InitSchedVars /\ InitTurnVars /\ InitRtVars /\ InitMemVars

ChatTurn == ChatLoad \/ ChatInvoke \/ ChatSave \/ ChatSend \/ ChatApology \/ ChatReturn

CliTurn == CliStart \/ CliInput \/ CliInvoke \/ CliSave \/ CliReturn

Next == ChatTurn \/ CliTurn

Spec == Init /\ [][Next]_vars

\* The entry of the daily report, due from the first slot of the day.
ReportEntry == Entry("hhmm", 0, "report")

\* The server while a run of the report has just been kicked off: the chat
\* handler, the Gmail push handler and the run, with the session file an
\* earlier turn has left or none.
InitPush ==
    /\ tz_ok = TRUE
    /\ schedule = <<ReportEntry>>
    /\ now = [day |-> 0, slot |-> 0]
    /\ last_run = [t \in TaskIds |-> NoDate]
    /\ reports = [d \in Days |-> <<>>]
    /\ runs = KickOff(<<ReportEntry>>)
    /\ kicked = MarkKicked([t \in TaskIds |-> NoDate], <<ReportEntry>>, 0)
    /\ lastFinish = [task_id |-> "", how |-> "none"]
    /\ session_file \in {File("absent", <<>>), PriorSession}
    /\ chat_id_known \in BOOLEAN
    /\ InitTurnVars /\ InitRtVars /\ InitMemVars

PushTurn == PushStart \/ PushInvoke \/ PushDeliver \/ PushReturn

NextPush == ChatTurn \/ PushTurn \/ ScheduledRuns

SpecPush == InitPush /\ [][NextPush]_vars

\* The memory tools called on a workspace that is empty, holds MEMORY.md, or
\* whose memory directory is a symbolic link to a place outside the root.
InitClaw ==
    /\ tz_ok = TRUE
    /\ schedule = <<>>
    /\ session_file = File("absent", <<>>)
    /\ chat_id_known = FALSE
    /\ InitSchedVars /\ InitTurnVars /\ InitRtVars /\ InitAmVars
    /\ InitCtxVars /\ InitIoVars /\ InitInVars
    /\ claw_out = [op |-> "none", path |-> <<>>, resolved |-> [ok |-> FALSE, loc |-> <<>>],
                   text |-> <<>>, ok |-> FALSE]
    /\ \E d \in {"absent", "dir", "link_out"}, f \in {<<>>, <<"old", "\n">>} :
          claw_fs = [dirs |-> [x \in {"memory"} |-> d],
                     files |-> IF f = <<>> THEN <<>>
                               ELSE [l \in {<<"MEMORY.md">>} |-> f]]

NextClaw == ClawRead \/ ClawAppend

\* The variables the agent memory does not use.
InitOthers ==
    /\ tz_ok = TRUE
    /\ schedule = <<>>
    /\ session_file = File("absent", <<>>)
    /\ chat_id_known = FALSE
    /\ InitSchedVars /\ InitTurnVars /\ InitRtVars /\ InitClawVars
    /\ InitCtxVars /\ InitIoVars /\ InitInVars

\* Two triggers that invoke the same capability, each saving what its run
\* of the adapter learned, on an agent memory that holds nothing yet.
InitSkillsRace ==
    /\ InitOthers
    /\ am = [identity |-> [exists |-> FALSE, text |-> <<>>], skills |-> NoDir,
             failures |-> NoDir, working |-> <<>>]
    /\ svr = [p \in {1, 2} |-> IdleSaver]
    /\ am_out = [op |-> "none", key |-> <<>>, text |-> <<>>]

NextSkills == \E p \in DOMAIN svr : SkillCount(p) \/ SkillWrite(p)

SpecSkillsRace == InitSkillsRace /\ [][NextSkills]_vars

\* One caller that saves skill after skill for an agent type with no skills yet.
InitSkills == InitOthers /\ InitAmVars

SpecSkills == InitSkills /\ [][NextSkills]_vars

\* Calls on the working memory, which holds nothing at first.
NextWorking == WorkingUpdate \/ WorkingGet \/ WorkingClear

SpecWorking == InitSkills /\ [][NextWorking]_vars

\* The directories get_skills / get_failures may find: none, an empty one,
\* one that holds the files of one or of two saves.
SavedDirs ==
    {NoDir, [exists |-> TRUE, files |-> <<>>]}
    \cup { [exists |-> TRUE, files |-> WriteFile(<<>>, SkillFileName(0, t), c)] :
              t \in Titles, c \in SkillTexts }
    \cup { [exists |-> TRUE,
            files |-> WriteFile(WriteFile(<<>>, SkillFileName(0, <<99>>), c),
                                SkillFileName(1, <<99>>), d)] : c, d \in SkillTexts }

\* load_agent_memory on an agent memory as it may be found: identity.md
\* absent, empty or written by hand, the directories as above, the working
\* file of the task absent or as update_working_memory left it.
InitLoad ==
    /\ InitOthers
    /\ svr = [p \in {1} |-> IdleSaver]
    /\ am_out = [op |-> "none", key |-> <<>>, text |-> <<>>]
    /\ \E id \in {[exists |-> FALSE, text |-> <<>>], [exists |-> TRUE, text |-> <<>>],
                   [exists |-> TRUE, text |-> <<"I am the mail agent.", "\n">>]},
          sk \in SavedDirs, fl \in SavedDirs,
          w \in {<<>>} \cup {[k \in {<<"session", "gmail">>} |-> c] : c \in WorkingTexts} :
          am = [identity |-> id, skills |-> sk, failures |-> fl, working |-> w]

SpecLoad == InitLoad /\ [][AmLoad]_vars

\* Calls of save_agent_memory and of the capabilities that use it, and what
\* an agent is then given as memory, on an agent memory that holds nothing at
\* first.
NextCapability == AmSave \/ Capability \/ AmLoad

SpecCapability == InitSkills /\ [][NextCapability]_vars

\* Turns of two triggers, each building its context message and appending to
\* the memory workspace, which is empty at first.
SpecContext == InitSkills /\ [][NextContext]_vars

\* The turns of one trigger, with the capabilities the delegating loop
\* invokes in them.
NextDelegate ==
    \/ /\ \/ CtxTurnStart("chat") \/ CtxAppendRead("chat") \/ CtxAppendWrite("chat")
          \/ CtxTurnEnd("chat") \/ CtxMidnight
       /\ UNCHANGED <<schedVars, turnVars, rtVars, inVars, amVars, ioVars, claw_out>>
    \/ CtxInvoke("chat")

SpecDelegate == InitSkills /\ [][NextDelegate]_vars

\* The adapters' invoke applied to conversations.
SpecAdapters == InitSkills /\ [][NextAdapters]_vars

\* The tools of the gmail and calendar adapters applied to what the API does.
SpecTools == InitSkills /\ [][ToolCall]_vars

\* Requests to the two endpoints, their background tasks, chat messages that
\* arrive by polling, and the proactive notices.
SpecInbound == InitSkills /\ [][NextInbound]_vars

\* Calls of the outbound text send.
NextSend == SendText

SpecSend == InitSkills /\ [][NextSend]_vars

\* Calls of the web search client.
NextSearch == SearchGroundedResponse

SpecSearch == InitSkills /\ [][NextSearch]_vars

\* Uses of an assistant message with block content.
SpecBlocks == InitSkills /\ [][NextBlocks]_vars

\* Invocations of the dispatcher's graph.
NextRoute == OrchestratorInvoke

SpecRoute == InitSkills /\ [][NextRoute]_vars

\* The adapters invoked between calls of save_agent_memory for the gmail
\* agent; the calendar agent's memory holds nothing.
NextAdapterMemory == AmSave \/ AdapterInvoke

SpecAdapterMemory == InitSkills /\ [][NextAdapterMemory]_vars

\* The triggers that load and save the session file: the heartbeat turn of
\* the server's loop (no task is scheduled), the chat handler and the CLI
\* commands, on a session file that is absent at first.
InitSession ==
    /\ tz_ok = TRUE
    /\ schedule = <<>>
    /\ session_file = File("absent", <<>>)
    /\ chat_id_known = FALSE
    /\ InitSchedVars /\ InitTurnVars /\ InitRtVars /\ InitMemVars

\* Trigger a is between turns: the chat handler is not running, the CLI is
\* not running or waits for input, the loop sleeps or has ended.
Quiet(a) ==
    pc[a] \in (IF a = "chat" THEN {"idle"}
               ELSE IF a = "cli" THEN {"idle", "input"}
               ELSE {"sleep", "crashed"})

\* Turns that do not overlap in time: a trigger takes a step only while the
\* other two are between turns.
NextSession ==
    \/ Quiet("cli") /\ Quiet("hb") /\ ChatTurn
    \/ Quiet("chat") /\ Quiet("hb") /\ CliTurn
    \/ Quiet("chat") /\ Quiet("cli") /\ HeartbeatLoop

SpecSession == InitSession /\ [][NextSession]_vars

\* The two server-side triggers, process_telegram_message and the heartbeat
\* loop, taking their turns one after the other.
NextServerTurns ==
    \/ Quiet("hb") /\ ChatTurn
    \/ Quiet("chat") /\ HeartbeatLoop

SpecServerTurns == InitSession /\ [][NextServerTurns]_vars

\* The scheduled tasks next to heartbeat cycles whose turn returns None (the
\* dispatcher call of the turn raises): the due check, the kick-off and the
\* runs are those of SpecSched, the session file stays as it is.
NextReports ==
    \/ HbSleep
    \/ HbLoad
    \/ HbInvoke /\ pc'["hb"] = "after_none"
    \/ HbAfterTurn
    \/ ScheduledRuns

\* The server started with no chat to notify.
InitReports ==
    /\ tz_ok \in BOOLEAN
    /\ schedule \in Schedules
    /\ session_file = PriorSession
    /\ chat_id_known = FALSE
    /\ InitSchedVars /\ InitTurnVars /\ InitRtVars /\ InitMemVars

SpecReports == InitReports /\ [][NextReports]_vars

SpecClaw == InitClaw /\ [][NextClaw]_vars

----------------------------------------------------------------------------
(* Properties of the scheduled tasks: SpecSched *)

\* The runs of task t the step creates.
StartedNow(t) ==
    IF Len(runs') > Len(runs)
    THEN {i \in (Len(runs) + 1)..Len(runs') : runs'[i].task_id = t}
    ELSE {}

\* C1: at most one run of a task_id is started per calendar day: a step starts
\* at most one run of a task, and none on a day a run of it was started before.
C1_OncePerDay ==
    [][\A t \in TaskIds :
          /\ Cardinality(StartedNow(t)) <= 1
          /\ StartedNow(t) # {} => kicked[t] # now.day]_vars

\* C2: the heartbeat loop never terminates: whatever the turn, the due-task
\* check and the runs do, the loop's task is never ended by an exception.
C2_LoopNeverTerminates == pc["hb"] # "crashed"

\* Run i ends in this step without output or with a failed report write.
FailedFinish(i) ==
    /\ runs[i].pc = "resumed"
    /\ runs' = RemoveAt(runs, i)
    /\ lastFinish'.task_id = runs[i].task_id
    /\ lastFinish'.how \in {"no_output", "report_write_raises"}

\* _get_due_tasks, called after the step, returns an entry of task t.
ReturnedAgain(t) ==
    LET d == GetDueTasks(tz_ok, now, last_run', schedule)
    IN  ~d.raised /\ \E k \in 1..Len(d.due) : d.due[k].task_id = t

\* C3: a run that fails leaves the last-run record unchanged, so that
\* _get_due_tasks returns its entry again the same day; a last-run record is
\* written only by a run with a non-blank reply, for the day the run began.
C3_FailedRunStaysDue ==
    [][/\ \A i \in 1..Len(runs) :
             FailedFinish(i) =>
                /\ last_run' = last_run
                /\ runs[i].today = now.day => ReturnedAgain(runs[i].task_id)
       /\ \A t \in TaskIds :
             last_run'[t] # last_run[t] =>
                \E i \in 1..Len(runs) :
                   /\ runs[i].pc = "resumed" /\ runs[i].task_id = t
                   /\ Strip(runs[i].result) # <<>>
                   /\ runs' = RemoveAt(runs, i)
                   /\ last_run'[t] = runs[i].today]_vars

\* C4: with a valid time zone, _get_due_tasks returns an entry with a time
\* HH:MM and a task_id exactly when the local time is at or after HH:MM and
\* the last-run record of the task is not today's date.
C4_DueExactlyWhen ==
    tz_ok =>
       \A k \in 1..Len(schedule) :
          LET e == schedule[k]
          IN  (e.time_kind = "hhmm" /\ e.task_id # "") =>
                 ((\E j \in 1..Len(DueNow.due) : DueNow.due[j] = e)
                    <=> (now.slot >= e.time_at /\ last_run[e.task_id] # now.day))

----------------------------------------------------------------------------
(* Properties of the turns that share the session file: Spec *)

\* C5: when two triggers have both loaded, dispatched and saved, the session
\* file holds exactly the list the later save wrote, nothing merged into it.
C5_LastWriterWins ==
    \A a \in Triggers, b \in Triggers :
       (a # b /\ saved[a] /\ saved[b] /\ lastSaver = a) =>
          FileRows(session_file) = SaveRows(mem[a])

\* The row the turn of trigger a appends for the user's message.
UserRow(a) == Row("human", UserText(a))

\* C5 happens: the chat turn and a one-shot CLI turn have both finished, the
\* CLI saved last and the chat turn is absent from the file (lost update).
C5_LostUpdate ==
    /\ pc["chat"] = "done" /\ pc["cli"] = "done" /\ cli_mode = "once"
    /\ saved["chat"] /\ saved["cli"] /\ lastSaver = "cli"
    /\ \A i \in 1..Len(FileRows(session_file)) :
          FileRows(session_file)[i] # UserRow("chat")

\* C6: every interactive turn reads the session file at its start: the rows the
\* file held when the turn began are contained in the session the turn writes.
C6_TurnReadsSessionAtStart ==
    [][\A a \in {"chat", "cli"} :
          (~saved[a] /\ saved'[a]) =>
             IsPrefix(turnStart[a], FileRows(session_file'))]_vars

\* C7: every record of the session file has role human or ai, and neither the
\* injected context message nor a capability's result is among the records.
C7_OnlyUserAssistantRows ==
    \A i \in 1..Len(FileRows(session_file)) :
       LET row == FileRows(session_file)[i]
       IN  /\ row.role \in {"human", "ai"}
           /\ row.content # ContextText
           /\ row.content # ToolResultText

\* C7 happens: a trigger has saved a dispatcher result that holds the context
\* message and a capability's result.
C7_SavedResultWithContext ==
    \E a \in Triggers :
       /\ saved[a] /\ lastSaver = a
       /\ \E i \in 1..Len(mem[a]) : mem[a][i].role = "system"
       /\ \E i \in 1..Len(mem[a]) : mem[a][i].role = "tool"
       /\ FileRows(session_file) # <<>>

\* The result of a chat turn on an empty session in which one capability is
\* invoked before the final answer.
OneCapabilityTurn ==
    InvokeOrchestrator(<<HumanMessage(Str(UserText("chat")))>>, 1, Str(AnswerText)).messages

\* C10: a successful chat turn from an empty session that invokes exactly one
\* capability leaves exactly 2 records, (user, assistant), and the delivered
\* reply is non-empty and holds no tool-invocation record.
C10_TwoEntries ==
    ( /\ pc["chat"] = "done" /\ saved["chat"] /\ lastSaver = "chat"
      /\ turnStart["chat"] = <<>>
      /\ mem["chat"] = OneCapabilityTurn ) =>
       /\ Len(FileRows(session_file)) = 2
       /\ FileRows(session_file)[1].role = "human"
       /\ FileRows(session_file)[2].role = "ai"
       /\ delivered["chat"].sent =>
             /\ delivered["chat"].text # <<>>
             /\ \A i \in 1..Len(delivered["chat"].text) :
                   delivered["chat"].text[i] \notin {"{tool_use}", "result"}

----------------------------------------------------------------------------
(* Properties of the session store: SpecStore *)

PlainList(l) == \A i \in 1..Len(l) : l[i] \in PlainMessages

\* C8: for a list of user and assistant messages with plain-text content,
\* save_session then load_session returns as many messages with the same
\* roles in the same order and the same text, and saving the loaded list
\* writes the file the first save wrote.
C8_RoundTrip ==
    (rt_pc \in {"loaded", "resaved"} /\ PlainList(rt_in)) =>
       /\ ~rt_out.raised
       /\ Len(rt_out.msgs) = Len(rt_in)
       /\ \A i \in 1..Len(rt_in) :
             /\ rt_out.msgs[i].role = rt_in[i].role
             /\ rt_out.msgs[i].content = rt_in[i].content
       /\ rt_pc = "resaved" => rt_file = SaveSession(rt_in)

\* C8 happens: a user message and an assistant message, one with empty text
\* and one with a quote and a backslash, have been saved, loaded and saved again.
C8_RoundTripDone ==
    /\ rt_pc = "resaved"
    /\ rt_in = << HumanMessage(Str(<<>>)), AIMessage(Str(<<"\"", "\\n">>)) >>

\* C9: load_session never raises, and for a file that is no JSON list it
\* returns the empty list.
C9_LoadNeverRaises ==
    rt_pc = "read" =>
       /\ ~rt_out.raised
       /\ rt_file.kind # "json_list" => rt_out.msgs = <<>>

----------------------------------------------------------------------------
(* Properties of the turns that leave the session file alone: SpecPush *)

\* A step of the push turn or of a scheduled run.
StandaloneStep == pc'["push"] # pc["push"] \/ runs' # runs

\* C11: a push turn and a scheduled report turn run the dispatcher on a
\* conversation of one message, the prompt: no step of theirs changes the
\* session file, whatever the outcome, and the conversation holds nothing of
\* the session; a push turn calls _send_telegram_text not once when no chat id
\* is known or when the reply is empty.
C11_StandaloneTurns ==
    [][ /\ StandaloneStep => session_file' = session_file
        /\ pc'["push"] = "invoke" =>
               mem'["push"] = <<HumanMessage(Str(PushPromptText))>>
        /\ pc'["push"] = "deliver" =>
               SelectSeq(mem'["push"], LAMBDA m : m.role = "human")
                  = <<HumanMessage(Str(PushPromptText))>>
        /\ pc["push"] = "deliver" /\ pc'["push"] = "done"
             /\ (~chat_id_known \/ ExtractLastAiText(mem["push"]) = <<>>) =>
               outbound'["push"] = <<>> /\ ~delivered'["push"].sent ]_vars

\* A push turn with an empty reply has ended without a delivery attempt while
\* the session file holds the rows of a chat turn, and a report run has returned.
C11_PushSkippedDelivery ==
    /\ pc["push"] = "done"
    /\ mem["push"] # <<>> /\ ExtractLastAiText(mem["push"]) = <<>>
    /\ chat_id_known
    /\ outbound["push"] = <<>>
    /\ FileRows(session_file) # <<>>
    /\ lastFinish.how # "none"

----------------------------------------------------------------------------
(* Properties of the heartbeat cycle's delivery: SpecSched *)

\* C12: in a heartbeat cycle whose turn returned a reply, with a chat id
\* known, a reply that is exactly HEARTBEAT_OK or starts with it leads to no
\* call of _send_telegram_text, and every other non-empty reply leads to
\* exactly one call.
C12_OneAttemptUnlessOk ==
    [][ pc["hb"] = "after" /\ pc'["hb"] # "after" /\ chat_id_known =>
           LET reply == ExtractLastAiText(mem["hb"])
           IN  IF IsPrefix(HeartbeatOkText, reply)
               THEN Len(outbound'["hb"]) = 0
               ELSE reply # <<>> => Len(outbound'["hb"]) = 1 ]_vars

----------------------------------------------------------------------------
(* Properties of the triggers' exception boundaries and step order: Spec *)

\* C13: an exception raised anywhere in a trigger's run is caught at that
\* trigger's boundary and never leaves it, and what the user gets of a failed
\* run is the fixed apology, never the text of the exception.
C13_NothingEscapes ==
    \A a \in Triggers :
        /\ pc[a] # "crashed"
        /\ delivered[a].sent => delivered[a].text # TracebackText

\* C14: within a turn of a trigger that works on the session file the reply is
\* handed to the user (sent or printed) only after the session has been written.
C14_SavedBeforeDelivered ==
    \A a \in {"chat", "cli"} :
        delivered[a].sent /\ delivered[a].text \notin {ApologyText, TracebackText}
            => saved[a]

----------------------------------------------------------------------------
(* Properties of the memory workspace: SpecClaw *)

\* The paths of the long-term document and of a daily document.
MemoryDocPaths == { <<"MEMORY.md">>, <<"memory", "/", "2026-02-26.md">> }

\* C15: read_memory_file and append_memory_file touch storage only for a path
\* that is MEMORY.md or memory/YYYY-MM-DD.md (white space around it and the
\* kind of slash aside); for every other path no location is resolved, no file
\* is created or changed, the read returns no text and the append reports failure.
C15_OnlyMemoryDocuments ==
    [][ NormalizePath(claw_out'.path) \notin MemoryDocPaths =>
           /\ ~claw_out'.resolved.ok
           /\ claw_fs' = claw_fs
           /\ claw_out'.text = <<>>
           /\ claw_out'.op = "append" => ~claw_out'.ok ]_clawVars

----------------------------------------------------------------------------
(* Properties of the skill and failure files: SpecSkillsRace, SpecSkills *)

\* The sequence index a file name begins with: the digits before the first "_".
IndexOf(name) ==
    LET RECURSIVE Value(_, _)
        Value(i, acc) == IF i > Len(name) \/ name[i] = 95 THEN acc
                         ELSE Value(i + 1, acc * 10 + (name[i] - 48))
    IN  Value(1, 0)

\* C16: whatever way calls of save_skill and save_failure for one agent type
\* interleave, a step leaves every file written before as it is, and the
\* sequence indexes of a directory are pairwise distinct and increase in the
\* order of saving.
C16_FilesKeptIndexesDistinct ==
    [][ \A k \in {"skills", "failures"} :
           /\ \A i \in 1..Len(am[k].files) :
                  i <= Len(am'[k].files) /\ am'[k].files[i] = am[k].files[i]
           /\ \A i \in 1..(Len(am'[k].files) - 1) :
                  IndexOf(am'[k].files[i].name) < IndexOf(am'[k].files[i + 1].name) ]_amVars

\* C17: saving skill records one after another for an agent type with no
\* skills yet gives with each save one more file, its index the number of
\* records saved so far (also under a title used before), leaves every earlier
\* file as it was, and the new file comes after all earlier ones in the order
\* get_skills reads them in: get_skills returns the records in the order saved.
C17_SavedInOrder ==
    [][ Len(am'.skills.files) # Len(am.skills.files) =>
           LET old == am.skills.files
               new == am'.skills.files
               n == Len(new)
           IN  /\ SubSeq(new, 1, n - 1) = old
               /\ IndexOf(new[n].name) = n
               /\ \A i \in 1..(n - 1) : SortsBefore(new[i].name, new[n].name) ]_amVars

----------------------------------------------------------------------------
(* Properties of working memory: SpecWorking *)

\* C18: after update_working_memory(t, a, c) get_working_memory(t, a) returns
\* exactly c and the value of every other pair is as before; after
\* clear_working_memory(t) get_working_memory(t, a) is empty for every a and
\* the values of other task ids are as before.
C18_OneValuePerPair ==
    [][ /\ am_out'.op = "update" =>
              /\ GetWorkingMemory(am'.working, am_out'.key) = am_out'.text
              /\ \A k \in WorkingKeys \ {am_out'.key} :
                     GetWorkingMemory(am'.working, k) = GetWorkingMemory(am.working, k)
        /\ am_out'.op = "clear" =>
              \A k \in WorkingKeys :
                 GetWorkingMemory(am'.working, k) =
                    IF k[1] = am_out'.key[1] THEN <<>> ELSE GetWorkingMemory(am.working, k)
      ]_amVars

----------------------------------------------------------------------------
(* Properties of the memory block: SpecLoad *)

\* Whether slice i of the agent memory is empty: no file, an empty file, no
\* directory or a directory without files.
SliceEmpty(i) ==
    IF i = 1 THEN ~am.identity.exists \/ am.identity.text = <<>>
    ELSE IF i = 2 THEN ~am.skills.exists \/ am.skills.files = <<>>
    ELSE IF i = 3 THEN ~am.failures.exists \/ am.failures.files = <<>>
    ELSE am_out.key \notin DOMAIN am.working \/ am.working[am_out.key] = <<>>

\* The part of the block from heading i up to the next heading or the end.
SectionOf(block, i) ==
    LET at(h) == CHOOSE j \in 1..Len(block) : block[j] = h
        from == at(SectionHeads[i])
        to == IF i < 4 THEN at(SectionHeads[i + 1]) - 1 ELSE Len(block)
    IN  SubSeq(block, from, to)

\* C19: the block of load_agent_memory holds the four headings, each once and
\* in the fixed order, and for every slice on its own the section is the
\* placeholder exactly when the slice is empty and else what the slice holds,
\* without the placeholder.
C19_PlaceholderIffEmpty ==
    am_out.op = "load" =>
        LET block == am_out.text
            held == << GetIdentity(am), GetSkills(am.skills), GetSkills(am.failures),
                       GetWorkingMemory(am.working, am_out.key) >>
        IN  /\ SelectSeq(block, LAMBDA x : x \in {SectionHeads[i] : i \in 1..4}) = SectionHeads
            /\ \A i \in 1..4 :
                   /\ SliceEmpty(i) <=> SectionOf(block, i) =
                          <<SectionHeads[i], "\n", Placeholders[i], "\n">>
                            \o (IF i < 4 THEN <<"\n">> ELSE <<>>)
                   /\ ~SliceEmpty(i) => SectionOf(block, i) =
                          <<SectionHeads[i], "\n">> \o held[i] \o <<"\n">>
                            \o (IF i < 4 THEN <<"\n">> ELSE <<>>)

\* The block has been built for an agent memory without identity.md and
\* without failures that holds two skills and working memory.
C19_MixedSlices ==
    /\ am_out.op = "load"
    /\ ~am.identity.exists /\ ~am.failures.exists
    /\ Len(am.skills.files) = 2
    /\ ~SliceEmpty(4)

----------------------------------------------------------------------------
(* Properties of the capabilities that save agent memory: SpecCapability *)

\* C20: save_agent_memory never fails its caller: whatever write raises and
\* whatever field of the adapter's result is malformed, save_agent_memory
\* returns normally, and the capability returns, with the adapter's reply text.
C20_CapabilityStillReturns ==
    /\ am_out.op \notin {"save_raised", "capability_raised"}
    /\ am_out.op = "capability" => am_out.text = ToolResultText

----------------------------------------------------------------------------
(* Properties of the context message: SpecContext *)

\* The documents the context message is built from on UTC day d.
WindowLocs(d) == { <<"MEMORY.md">>, TodayPath(d), YesterdayPath(d) }

\* C21: the context message of a turn holds the content the memory documents
\* have when the turn starts: every append that completed before, by any
\* trigger, to MEMORY.md or to the document of today or yesterday, is
\* contained in the context message of a turn that starts after it.
C21_AppendsInNextContext ==
    [][\A a \in CtxTriggers :
          (ctx[a].pc = "idle" /\ ctx'[a].pc = "running") =>
              \A i \in 1..Len(appended) :
                  appended[i].loc \in WindowLocs(utc_day)
                      => Contains(ctx'[a].msg, Strip(appended[i].content))]_vars

----------------------------------------------------------------------------
(* Properties of the capability invocations: SpecDelegate *)

\* C22: every capability invocation (websearch, gmail, calendar, direct)
\* passes to the adapter exactly two messages: the global context message
\* built from the workspace as it is at the invocation, and one user message
\* holding the instruction text; nothing else is forwarded.
C22_TwoFreshMessages ==
    [][(call' # call /\ call'.op \in Capabilities) =>
          /\ Len(call'.messages) = 2
          /\ call'.messages[1] = SystemMessage(Str(GlobalContextText(claw_fs, utc_day)))
          /\ call'.messages[2] = HumanMessage(Str(call'.instruction))]_vars

----------------------------------------------------------------------------
(* Properties of the adapters: SpecAdapters *)

\* A user message of the conversation whose text is not blank.
HasNonBlankUser(messages) ==
    \E i \in 1..Len(messages) :
        /\ messages[i].role = "human"
        /\ IF messages[i].content.k = "str" THEN Strip(messages[i].content.lines) # <<>>
           ELSE \E b \in 1..Len(messages[i].content.blocks) :
                    /\ messages[i].content.blocks[b].type = "text"
                    /\ Strip(messages[i].content.blocks[b].text) # <<>>

\* C23: the conversation an adapter's invoke returns is the input conversation
\* followed by appended content only; the web-search adapter appends exactly
\* one assistant message when the conversation has a non-blank user message
\* and returns the conversation unchanged when it has none.
C23_InputIsPrefix ==
    call.op \in {"websearch", "react"} =>
        /\ ~ret.raised
        /\ IsPrefix(call.messages, ret.messages)
        /\ call.op = "websearch" =>
              IF HasNonBlankUser(call.messages)
              THEN /\ Len(ret.messages) = Len(call.messages) + 1
                   /\ ret.messages[Len(ret.messages)].role = "ai"
              ELSE ret.messages = call.messages

----------------------------------------------------------------------------
(* Properties of the domain operations: SpecTools *)

\* C24: a gmail or calendar tool whose external API call fails with a
\* not-found error returns a descriptive text as its normal result and does
\* not raise.
C24_NotFoundIsText ==
    (call.op \in GmailTools \cup CalendarTools
        /\ NotFoundMet(call.op, call.id, call.api, call.get_api))
    => (~ret.raised /\ ret.text # <<>>)

----------------------------------------------------------------------------
(* Properties of the inbound endpoints: SpecInbound *)

\* C25: the push endpoint and the chat endpoint answer every request with
\* status 200, whatever its body; the dispatcher run is only added as a
\* background task, which runs after the response.
C25_AlwaysStatus200 ==
    call.op \in {"gmail_webhook", "telegram_webhook"} => ret.status = 200

\* C26: once a chat message with chat id c has been processed, through the
\* webhook or through polling, every later push summary, heartbeat report and
\* scheduled-task notice goes to the chat id of the chat message processed
\* last (no TELEGRAM_CHAT_ID being set).
C26_NoticesGoToLastChat ==
    [][(call'.op \in {"push_summary", "heartbeat_report", "scheduled_notice"}
          /\ call'.has_text /\ last_chat' # NoChat)
       => ret'.sent_to = last_chat']_vars

----------------------------------------------------------------------------
(* Properties of the outbound text send: SpecSend *)

\* C27: every text passed to the outbound send has at most 4096 characters:
\* a text of at most 4096 characters is sent unchanged, and a longer text is
\* sent as its first 4093 characters followed by "...".
C27_SentTextCapped ==
    (call.op = "send_text" /\ ret.op = "bot_send") =>
        LET given == call.text
            sent == ret.text
        IN  /\ Len(sent) <= 4096
            /\ Len(given) <= 4096 => sent = given
            /\ Len(given) > 4096 =>
                  /\ Len(sent) = 4093 + 3
                  /\ \A i \in 1..4093 : sent[i] = given[i]
                  /\ \A i \in 4094..4096 : sent[i] = "."

\* A text longer than the limit has been handed to the Bot API.
C27_LongTextSent ==
    /\ call.op = "send_text"
    /\ ret.op = "bot_send"
    /\ Len(call.text) > 4096
    /\ ret.text # call.text

----------------------------------------------------------------------------
(* Properties of the web search client: SpecSearch *)

\* C28: the web search client replaces a non-empty query by the clarifying
\* synthetic query exactly when the query is a meta request (short, and
\* matching a known phrasing with no concrete topic); every other non-empty
\* query, a short one that names a concrete topic included, reaches the
\* search as it is.
C28_ReplacedIffMeta ==
    (call.op = "search" /\ ret.called /\ Len(StrStrip(call.query)) > 0) =>
        LET query == StrStrip(call.query)
            meta == ShortQuery(query) /\ HasMetaPhrase(query) /\ ~HasTopicWord(query)
        IN  ret.contents = IF meta THEN SyntheticPrefix \o query ELSE query

----------------------------------------------------------------------------
(* Properties of assistant messages with block content: SpecBlocks *)

\* C29: where an assistant message whose content is a list of typed blocks is
\* delivered to Telegram, printed by the CLI or saved to the session, only the
\* text of its text blocks is used, joined in order; a block of another type
\* adds nothing.
C29_OnlyTextBlocksUsed ==
    call.op \in {"telegram_reply", "cli_print", "save_session"} =>
        LET blocks == call.messages[Len(call.messages)].content.blocks
            text_blocks == SelectSeq(blocks, LAMBDA b : b.type = "text")
        IN  ret.text = JoinLines([i \in 1..Len(text_blocks) |-> text_blocks[i].text])

----------------------------------------------------------------------------
(* Properties of the dispatcher's graph: SpecRoute *)

\* C30: the dispatcher routes by classification: a reply of the model that
\* contains a known agent name (as a substring, whatever the case) routes to
\* that agent, a reply that contains none routes to the direct answer, and a
\* conversation with no message of the user routes to the direct answer
\* without any model being invoked.
C30_RoutesByClassification ==
    call.op = "orchestrate" =>
        LET has_user == \E i \in 1..Len(call.messages) : call.messages[i].role = "human"
            named == {a \in Capabilities \ {"direct"} : StrIn(a, StrLower(call.reply.text))}
            routed == IF ret.invoked = <<>> THEN "direct" ELSE ret.invoked[1]
        IN  /\ ~has_user => (ret.model_calls = 0 /\ routed = "direct")
            /\ (has_user /\ ~ret.raised) =>
                  IF named = {} THEN routed = "direct" ELSE routed \in named

----------------------------------------------------------------------------
(* Properties of the gmail and calendar capabilities: SpecCapability *)

\* C31: each invocation of the gmail or calendar capability invokes the
\* adapter exactly once, then calls save_agent_memory exactly once with the
\* adapter's result, then returns the adapter's final text; an exception
\* raised while creating or invoking the adapter is not caught inside the
\* capability, and no memory is saved for that invocation.
C31_InvokeOnceThenSave ==
    am_out.op \in {"capability", "capability_raised"} =>
        IF am_out.adapter = "ok"
        THEN /\ am_out.op = "capability"
             /\ am_out.adapter_calls = 1
             /\ am_out.saves = 1
             /\ am_out.text = ToolResultText
        ELSE /\ am_out.op = "capability_raised"
             /\ am_out.adapter_calls <= 1
             /\ am_out.saves = 0

----------------------------------------------------------------------------
(* Properties of the adapters' model input: SpecAdapterMemory *)

\* C32: every model call of the gmail or calendar adapter gets, prepended to
\* its input, the memory block load_agent_memory builds from the agent memory
\* as it is at the time of the call; so a skill or failure saved earlier is in
\* the input of every later invocation.
C32_MemoryBlockPrepended ==
    [][(call'.op = "adapter_invoke" /\ UNCHANGED amVars) =>
          LET store == IF call'.agent = "gmail" THEN am
                       ELSE [identity |-> [exists |-> FALSE, text |-> <<>>], skills |-> NoDir,
                             failures |-> NoDir, working |-> <<>>]
          IN  /\ ret'.llm_input[1] =
                    SystemMessage(Str(LoadAgentMemory(store, <<"session", call'.agent>>)))
              /\ \A i \in 1..Len(call'.messages) : \E j \in 2..Len(ret'.llm_input) :
                    ret'.llm_input[j] = call'.messages[i]]_vars

----------------------------------------------------------------------------
(* Properties of save_agent_memory: SpecCapability *)

\* C33: when save_agent_memory(service, a, t, result) returns, with s skill
\* records and f failure records in result, agent type a has exactly s more
\* stored skills and f more stored failures than before, the working memory of
\* (t, a) is result's working_memory if that is a non-empty string and is as
\* before otherwise, and the working memory of every other pair is as before.
C33_SaveAddsExactly ==
    [][am_out'.op = "save" =>
          LET given == am_out'.given
          IN  /\ Len(am'.skills.files) = Len(am.skills.files) + given.skills
              /\ Len(am'.failures.files) = Len(am.failures.files) + given.failures
              /\ GetWorkingMemory(am'.working, am_out'.key) =
                    IF given.working # <<>> THEN given.working
                    ELSE GetWorkingMemory(am.working, am_out'.key)
              /\ \A k \in WorkingKeys \ {am_out'.key} :
                    GetWorkingMemory(am'.working, k) = GetWorkingMemory(am.working, k)
      ]_amVars

----------------------------------------------------------------------------
(* Properties of the session over turns that do not overlap: SpecSession *)

\* C34: a heartbeat turn that completes writes the session file as the
\* session it loaded followed by the heartbeat instruction as user entry and
\* the dispatcher's reply as assistant entry, whether or not the reply is
\* HEARTBEAT_OK; every interactive turn that starts later loads these
\* entries; a heartbeat turn that fails leaves the session file as it was.
C34_HeartbeatTurnPersisted ==
    [][/\ (pc["hb"] = "save" /\ pc'["hb"] = "after") =>
              FileRows(session_file') =
                  turnStart["hb"] \o <<Row("human", UserText("hb")),
                                       Row("ai", ExtractLastAiText(mem["hb"]))>>
       /\ (pc["hb"] \in {"load", "invoke", "save"} /\ pc'["hb"] = "after_none") =>
              session_file' = session_file
       /\ \A a \in {"chat", "cli"} :
              (lastSaver = "hb" /\ pc[a] # "invoke" /\ pc'[a] = "invoke") =>
                  IsPrefix(FileRows(session_file), SaveRows(mem'[a]))
      ]_vars

\* C35: over turns that do not overlap in time (each loads the session, runs
\* the dispatcher and saves), the session file after each successful turn has
\* the session file before that turn as a prefix: earlier entries are not
\* removed, reordered or changed, and the new user entry follows them.
C35_FileGrowsByPrefix ==
    [][\A a \in {"chat", "cli", "hb"} :
          (saved'[a] /\ ~saved[a]) =>
              LET old == FileRows(session_file)
                  new == FileRows(session_file')
              IN  /\ IsPrefix(old, new)
                  /\ Len(new) > Len(old)
                  /\ new[Len(old) + 1] = Row("human", UserText(a))
      ]_vars

\* A turn of trigger a in which the dispatcher has raised: the conversation
\* still ends with the user's message and the turn has not saved.
DispatchFailed(a) ==
    /\ pc[a] \in {"apology", "done", "after_none"}
    /\ ~saved[a]
    /\ mem[a] # <<>>
    /\ mem[a][Len(mem[a])] = HumanMessage(Str(UserText(a)))

\* C36: if the dispatcher raises during a chat turn or a heartbeat turn,
\* save_session is not called and the session file is what it was before the
\* turn: the user message of the failed turn is not persisted.
C36_FailedTurnNotSaved ==
    [][\A a \in {"chat", "hb"} :
          /\ (pc[a] = "invoke" /\ pc'[a] \in {"apology", "after_none"}) =>
                /\ session_file' = session_file
                /\ FileRows(session_file') = turnStart[a]
                /\ ~saved'[a]
          /\ DispatchFailed(a) =>
                /\ session_file' = session_file
                /\ FileRows(session_file') = turnStart[a]
                /\ lastSaver' = lastSaver
      ]_vars

\* The dispatcher has raised in a chat turn that began on a session file
\* with entries.
C36_ChatTurnFailed ==
    /\ pc["chat"] = "apology"
    /\ DispatchFailed("chat")
    /\ turnStart["chat"] # <<>>
    /\ FileRows(session_file) = turnStart["chat"]

OtherEntriesDue ==
    { i \in 1..Len(schedule) :
        /\ schedule[i].task_id \notin {"report", ""}
        /\ schedule[i].time_kind \in {"hhmm", "missing"}
        /\ now.slot >= ScheduledSlot(schedule[i]) }

\* The runs of tasks other than the report leave no result, no report file
\* and no last-run record.
OtherTaskLeavesNothing ==
    /\ \A i \in 1..Len(runs') : runs'[i].task_id # "report" => runs'[i].result = <<>>
    /\ \A t \in TaskIds \ {"report"} : last_run'[t] = NoDate
    /\ reports' # reports => lastFinish'.task_id = "report"

\* The due check and the kick-off at the end of a heartbeat cycle return and
\* start every entry of OtherEntriesDue.
OtherTaskKickedOff ==
    (pc["hb"] \in {"after", "after_none"} /\ pc'["hb"] # pc["hb"]) =>
        \A i \in OtherEntriesDue :
            /\ ~DueNow.raised
            /\ \E j \in 1..Len(DueNow.due) : DueNow.due[j] = schedule[i]
            /\ \E j \in (Len(runs) + 1)..Len(runs') : runs'[j] = Run(schedule[i])
            /\ kicked'[schedule[i].task_id] = now.day

\* C40: a schedule entry whose task_id is not "report" never invokes the
\* dispatcher, never writes a report file and never gets a last-run record;
\* hence, once its time of day has passed, every heartbeat cycle of that day
\* returns it as due and kicks it off again.
C40_OtherTaskEveryCycle ==
    [][OtherTaskLeavesNothing /\ OtherTaskKickedOff]_vars

\* The first of the two parts alone.
C40_LeavesNothing == [][OtherTaskLeavesNothing]_vars

\* The second part for a valid time zone and a schedule whose times are all
\* times of day.
C40_KickedOffWhenCheckReturns ==
    [][(tz_ok /\ \A i \in 1..Len(schedule) : schedule[i].time_kind # "out_of_range")
          => OtherTaskKickedOff]_vars

\* The conversation the graph hands to the delegating loop in a turn of
\* trigger a: inject_context has run on the messages of the front-end.
HandedToLoop(a) == InjectGlobalContext(mem[a])

\* Exactly one context system message, placed first.
OneContextFirst(messages) ==
    /\ messages[1] = GlobalContextMessage
    /\ \A i \in 2..Len(messages) : messages[i].role # "system"

\* C38: on every turn of every front-end the conversation handed to the
\* delegating loop holds exactly one injected context system message, placed
\* first; the context messages of earlier turns are not carried along.
C38_OneContextMessage ==
    \A a \in Triggers : pc[a] = "invoke" => OneContextFirst(HandedToLoop(a))

\* The same for every turn but those of the interactive loop of the CLI.
C38_OneContextOutsideLoop ==
    \A a \in Triggers :
        (pc[a] = "invoke" /\ ~(a = "cli" /\ cli_mode = "loop")) =>
            OneContextFirst(HandedToLoop(a))

\* The text of the document at loc, <<>> when there is none.
ClawTextAt(fs, loc) == IF loc \in DOMAIN fs.files THEN fs.files[loc] ELSE <<>>

IsSuffix(s, t) == Len(s) <= Len(t) /\ SubSeq(t, Len(t) - Len(s) + 1, Len(t)) = s

\* One call of append_memory_file: an accepted append keeps what the document
\* held (but for white space at its end), puts the trimmed content after it
\* and creates the document when there was none; a rejected or failed append
\* leaves every document as it was.
AppendKeepsAndAdds ==
    claw_out'.op = "append" =>
        LET loc == claw_out'.resolved.loc
            before == ClawTextAt(claw_fs, loc)
            after == ClawTextAt(claw_fs', loc)
        IN  IF claw_out'.ok
            THEN /\ loc \in DOMAIN claw_fs'.files
                 /\ IsPrefix(RStrip(before), after)
                 /\ IsSuffix(Strip(call'.content) \o <<"\n">>, after)
                 /\ Len(after) >= Len(RStrip(before)) + Len(Strip(call'.content)) + 1
                 /\ \A l \in DOMAIN claw_fs.files : l # loc => claw_fs'.files[l] = claw_fs.files[l]
            ELSE claw_fs'.files = claw_fs.files

\* C39: for appends on one allowed path that do not overlap in time, the
\* document holds every appended content, trimmed, in the order of the calls,
\* none lost or altered, and is created by the first append; a rejected or
\* failed append leaves the document unchanged.
C39_AppendsKept == [][AppendKeepsAndAdds]_vars

\* The same for the appends whose content UTF-8 can encode.
C39_EncodableAppendsKept ==
    [][(claw_out'.op = "append" /\ \E i \in 1..Len(call'.content) : call'.content[i] = "\\ud800")
          \/ AppendKeepsAndAdds]_vars

====
